---- MODULE Spec2Model ----
(***************************************************************************)
(* Guess-the-sentence game: ScoreCalculator, SentenceManager, GameEngine.  *)
(*                                                                         *)
(* A character is a one-character string and a string is a sequence of     *)
(* characters, so that length, trimming, case conversion and the           *)
(* per-character loops are computed as the code computes them; the letter  *)
(* sets hold strings, as the code's Set<string> do.  A multiplier is the   *)
(* rational n/d kept as a record [n, d]: the values the code produces      *)
(* (3^k / 2^k) are exact in IEEE doubles within the bounds below.          *)
(*                                                                         *)
(* initializeGame and restoreGameState are asynchronous: each is one       *)
(* action up to its await and one action (Resolve) when the sentence       *)
(* source answers.                                                         *)
(*                                                                         *)
(* services/apiClient: the ApiClient's cache, the browser's localStorage   *)
(* entries it keeps, and its requests in flight.  A call that reaches      *)
(* makeRequest is one action up to the first fetch and one action          *)
(* (Attempt) per answer of the network.                                    *)
(***************************************************************************)
EXTENDS Integers, Sequences, FiniteSets, TLC

VARIABLES
  scoreCalculator,   \* GameEngine.scoreCalculator: the ScoreCalculator's fields
  sentenceManager,   \* GameEngine.sentenceManager: the SentenceManager's fields
  guessedLetters,    \* GameEngine.guessedLetters
  gameDate,          \* GameEngine.gameDate
  isGameComplete,    \* GameEngine.isGameComplete
  pending,           \* async calls suspended at `await loadDailySentence`
  lastCall,          \* the last call made by the caller and what it returned/threw
  streak,            \* history: correct guesses since fresh/incorrect (-1: not anchored)
  cache,             \* ApiClient.cache: key -> [data, timestamp, ttl]
  localStorage,      \* the two localStorage items the ApiClient keeps
  requests,          \* ApiClient calls suspended in makeRequest
  now,               \* Date.now()
  serverDay,         \* the worker's clock: whole days (UTC) since 2024-01-01
  dailyScores,       \* table daily_scores of GAME_DB: rows in insertion order
  players,           \* table players of GAME_DB: player_name -> row
  foreignKeys,       \* whether GAME_DB enforces FOREIGN KEY constraints
  handlers,          \* worker requests suspended in an await
  lastResponse,      \* the last response of the worker and its request
  rateLimit,         \* the rate limiter: clock, SENTENCES_KV lists, checks, puts
  ledger             \* history: submissions answered 200, writes to players

vars == <<scoreCalculator, sentenceManager, guessedLetters, gameDate,
          isGameComplete, pending, lastCall, streak,
          cache, localStorage, requests, now,
          serverDay, dailyScores, players, foreignKeys, handlers, lastResponse,
          rateLimit, ledger>>

apiVars == <<cache, localStorage, requests, now>>

workerVars == <<serverDay, dailyScores, players, foreignKeys, handlers,
                lastResponse, rateLimit, ledger>>

engineVars == <<scoreCalculator, sentenceManager, guessedLetters, gameDate,
                isGameComplete>>

-----------------------------------------------------------------------------
(* Bounds of the model *)

\* longest streak of correct calculatePoints calls explored on a bare calculator
MaxStreak == 5
\* calculatePoints is no longer called once the score exceeds this
MaxScore == 60
\* largest letterInstances passed to a bare calculator
MaxInstances == 3
\* largest number of suspended initializeGame/restoreGameState calls
MaxPending == 2
\* largest number of requests the worker handles at the same time
MaxHandlers == 2
\* how many times the worker's clock passes midnight (UTC)
MaxServerDays == 1
\* env.RATE_LIMIT_REQUESTS and env.RATE_LIMIT_WINDOW (seconds) of the
\* deployment explored
RateLimitRequests == 2
RateLimitWindow == 2
\* how many seconds pass on the rate limiter's clock, and how many requests
\* reach the rate limiter
MaxSeconds == 2
MaxRequests == 4
\* longest list of pending score submissions kept in localStorage
MaxSubmissions == 2
\* how many times the clock is advanced, and by how many milliseconds
MaxClock == 2
ClockStep == 1800000

-----------------------------------------------------------------------------
(* Characters and strings *)

UpperAlphabet ==
  <<"A","B","C","D","E","F","G","H","I","J","K","L","M",
    "N","O","P","Q","R","S","T","U","V","W","X","Y","Z">>

LowerAlphabet ==
  <<"a","b","c","d","e","f","g","h","i","j","k","l","m",
    "n","o","p","q","r","s","t","u","v","w","x","y","z">>

UpperLetters == {UpperAlphabet[i] : i \in 1..26}

LowerLetters == {LowerAlphabet[i] : i \in 1..26}

Digits == {"0","1","2","3","4","5","6","7","8","9"}

\* \s of the regular expressions, and what String.prototype.trim removes
Whitespace == {" ", "\t", "\n"}

\* /[A-Za-z]/
IsAlpha(ch) == ch \in UpperLetters \cup LowerLetters

\* /[A-Z]/
IsUpperAlpha(ch) == ch \in UpperLetters

\* String.prototype.toUpperCase on one character
CharToUpperCase(ch) ==
  IF ch \in LowerLetters
    THEN UpperAlphabet[CHOOSE i \in 1..26 : LowerAlphabet[i] = ch]
    ELSE ch

\* String.prototype.toUpperCase
toUpperCase(s) == [i \in 1..Len(s) |-> CharToUpperCase(s[i])]

\* String.prototype.trim
trim(s) ==
  LET keep == {i \in 1..Len(s) : s[i] \notin Whitespace}
  IN  IF keep = {} THEN <<>>
      ELSE LET lo == CHOOSE i \in keep : \A j \in keep : i <= j
               hi == CHOOSE i \in keep : \A j \in keep : j <= i
           IN  SubSeq(s, lo, hi)

\* the set of characters of a string
Chars(s) == {s[i] : i \in 1..Len(s)}

-----------------------------------------------------------------------------
(* types/validation *)

isValidLetter(input) == Len(input) = 1 /\ IsAlpha(input[1])

normalizeLetter(letter) == toUpperCase(letter)

\* /^[A-Za-z0-9\s\-.,!?'"()]+$/
SentenceCharClass ==
  UpperLetters \cup LowerLetters \cup Digits \cup Whitespace
    \cup {"-", ".", ",", "!", "?", "'", "\"", "(", ")"}

MinSentenceLength == 10

MaxSentenceLength == 200

\* a validation that looks at the length only
isValidSentence_LengthOnly(sentence) ==
  LET trimmed == trim(sentence)
  IN  ~(Len(trimmed) < MinSentenceLength \/ Len(trimmed) > MaxSentenceLength)

isValidSentence(sentence) ==
  LET trimmed == trim(sentence)
  IN  /\ ~(Len(trimmed) < MinSentenceLength \/ Len(trimmed) > MaxSentenceLength)
      /\ \E i \in 1..Len(trimmed) : IsAlpha(trimmed[i])
      /\ Len(trimmed) >= 1
      /\ \A i \in 1..Len(trimmed) : trimmed[i] \in SentenceCharClass

-----------------------------------------------------------------------------
(* Numbers: multipliers are rationals n/d with d > 0 *)

Rat(n, d) == [n |-> n, d |-> d]

One == Rat(1, 1)

RatEq(a, b) == a.n * b.d = b.n * a.d

RatLess(a, b) == a.n * b.d < b.n * a.d

RatMax(a, b) == IF RatLess(a, b) THEN b ELSE a

RatTimes(a, b) == Rat(a.n * b.n, a.d * b.d)

Max(a, b) == IF a < b THEN b ELSE a

RECURSIVE Pow(_, _)
Pow(b, k) == IF k = 0 THEN 1 ELSE b * Pow(b, k - 1)

\* Math.round(k * m) for an integer k and a rational m: the nearest integer,
\* a tie going up (floor(x + 1/2))
MathRoundTimes(k, m) == (2 * k * m.n + m.d) \div (2 * m.d)

-----------------------------------------------------------------------------
(* components/ScoreCalculator *)

basePointsPerLetter == 10

incorrectGuessDeduction == 10

\* multiplierIncrement = 1.5
multiplierIncrement == Rat(3, 2)

\* new ScoreCalculator()
NewScoreCalculator ==
  [currentScore |-> 0, nextMultiplier |-> One, consecutiveCorrect |-> 0]

\* a reset that forgets the multiplier
resetStreak_KeepMultiplier(c) == [c EXCEPT !.consecutiveCorrect = 0]

resetStreak(c) ==
  [c EXCEPT !.nextMultiplier = One, !.consecutiveCorrect = 0]

\* Math.floor in place of Math.round
CorrectPoints_Truncated(letterInstances, multiplierUsed) ==
  (basePointsPerLetter * letterInstances * multiplierUsed.n) \div multiplierUsed.d

\* Math.round(basePointsPerLetter * letterInstances * multiplierUsed)
CorrectPoints(letterInstances, multiplierUsed) ==
  MathRoundTimes(basePointsPerLetter * letterInstances, multiplierUsed)

\* a streak that is counted while the multiplier stays as it is
AdvanceStreak_CountOnly(c) == [c EXCEPT !.consecutiveCorrect = @ + 1]

\* a multiplier that grows by adding 0.5 instead of compounding
AdvanceStreak_Additive(c) ==
  [c EXCEPT !.consecutiveCorrect = @ + 1,
            !.nextMultiplier = Rat(2 * @.n + @.d, 2 * @.d)]

\* the streak update of a correct guess (lines 31-32)
AdvanceStreak(c) ==
  [c EXCEPT !.consecutiveCorrect = @ + 1,
            !.nextMultiplier = RatTimes(@, multiplierIncrement)]

\* the total without its floor
AddToScore_NoFloor(c, pointsEarned) ==
  [c EXCEPT !.currentScore = @ + pointsEarned]

\* this.currentScore = Math.max(0, this.currentScore + pointsEarned)
AddToScore(c, pointsEarned) ==
  [c EXCEPT !.currentScore = Max(0, @ + pointsEarned)]

\* a deduction that never takes more than the player has
IncorrectPoints_Clamped(c) ==
  0 - (IF c.currentScore < incorrectGuessDeduction THEN c.currentScore
       ELSE incorrectGuessDeduction)

\* pointsEarned = -this.incorrectGuessDeduction
IncorrectPoints(c) == 0 - incorrectGuessDeduction

\* a calculator whose streak advances only when a letter was revealed
calculatePoints_StreakNeedsInstances(c, letterInstances, isCorrect) ==
  LET multiplierUsed == IF isCorrect THEN c.nextMultiplier ELSE One
      pointsEarned ==
        IF isCorrect THEN CorrectPoints(letterInstances, multiplierUsed)
                     ELSE IncorrectPoints(c)
      c1 == IF ~isCorrect THEN resetStreak(c)
            ELSE IF letterInstances > 0 THEN AdvanceStreak(c)
            ELSE c
      c2 == AddToScore(c1, pointsEarned)
  IN  [calc   |-> c2,
       result |-> [pointsEarned    |-> pointsEarned,
                   newTotal        |-> c2.currentScore,
                   multiplierUsed  |-> multiplierUsed,
                   letterInstances |-> letterInstances,
                   isCorrect       |-> isCorrect]]

\* calculatePoints: the calculator after the call and the ScoreResult returned
calculatePoints(c, letterInstances, isCorrect) ==
  LET multiplierUsed == IF isCorrect THEN c.nextMultiplier ELSE One
      pointsEarned ==
        IF isCorrect THEN CorrectPoints(letterInstances, multiplierUsed)
                     ELSE IncorrectPoints(c)
      c1 == IF isCorrect THEN AdvanceStreak(c) ELSE resetStreak(c)
      c2 == AddToScore(c1, pointsEarned)
  IN  [calc   |-> c2,
       result |-> [pointsEarned    |-> pointsEarned,
                   newTotal        |-> c2.currentScore,
                   multiplierUsed  |-> multiplierUsed,
                   letterInstances |-> letterInstances,
                   isCorrect       |-> isCorrect]]

getCurrentMultiplier(c) == c.nextMultiplier

getCurrentScore(c) == c.currentScore

getConsecutiveCorrect(c) == c.consecutiveCorrect

setScore(c, score) == [c EXCEPT !.currentScore = Max(0, score)]

\* a restore of the numbers as they are given
initializeState_NoFloor(c, score, consecutiveCorrect, multiplier) ==
  [c EXCEPT !.currentScore = score,
            !.consecutiveCorrect = consecutiveCorrect,
            !.nextMultiplier = multiplier]

\* an initialisation that floors the score only
initializeState_FloorScoreOnly(c, score, consecutiveCorrect, multiplier) ==
  [c EXCEPT !.currentScore = Max(0, score),
            !.consecutiveCorrect = consecutiveCorrect,
            !.nextMultiplier = multiplier]

initializeState(c, score, consecutiveCorrect, multiplier) ==
  [c EXCEPT !.currentScore = Max(0, score),
            !.consecutiveCorrect = Max(0, consecutiveCorrect),
            !.nextMultiplier = RatMax(One, multiplier)]

-----------------------------------------------------------------------------
(* components/SentenceManager *)

\* new SentenceManager()
NewSentenceManager ==
  [currentSentence |-> <<>>, normalizedSentence |-> <<>>, revealedLetters |-> {}]

\* what loadDailySentence does with the response of apiClient.getSentence:
\* the manager afterwards and the error thrown ("" when it returns)
loadDailySentence(sm, response) ==
  IF ~response.success \/ Len(response.sentence) = 0
    THEN [sm |-> sm,
          error |-> IF response.error # "" THEN response.error
                    ELSE "Invalid sentence response"]
  ELSE IF ~isValidSentence(response.sentence)
    THEN [sm |-> sm, error |-> "Received invalid sentence from API"]
  ELSE [sm |-> [currentSentence    |-> trim(response.sentence),
                normalizedSentence |-> toUpperCase(trim(response.sentence)),
                revealedLetters    |-> {}],
        error |-> ""]

\* the for-loop of revealLetter: occurrences of a character in a string
CountInstances(s, ch) == Cardinality({i \in 1..Len(s) : s[i] = ch})

\* a revealLetter that records only the letters it finds
revealLetter_OnlyIfPresent(sm, letter) ==
  IF ~isValidLetter(letter)
    THEN [sm |-> sm, error |-> "Invalid letter provided", instances |-> 0]
  ELSE IF Len(sm.currentSentence) = 0
    THEN [sm |-> sm, error |-> "No sentence loaded", instances |-> 0]
  ELSE [sm |-> IF normalizeLetter(letter)[1] \in Chars(sm.normalizedSentence)
                 THEN [sm EXCEPT !.revealedLetters = @ \cup {normalizeLetter(letter)}]
               ELSE sm,
        error |-> "",
        instances |-> CountInstances(sm.normalizedSentence, normalizeLetter(letter)[1])]

\* a revealLetter that records the letter before it looks for a sentence
revealLetter_RecordsFirst(sm, letter) ==
  IF ~isValidLetter(letter)
    THEN [sm |-> sm, error |-> "Invalid letter provided", instances |-> 0]
  ELSE IF Len(sm.currentSentence) = 0
    THEN [sm |-> [sm EXCEPT !.revealedLetters = @ \cup {normalizeLetter(letter)}],
          error |-> "No sentence loaded", instances |-> 0]
  ELSE [sm |-> [sm EXCEPT !.revealedLetters = @ \cup {normalizeLetter(letter)}],
        error |-> "",
        instances |-> CountInstances(sm.normalizedSentence, normalizeLetter(letter)[1])]

\* revealLetter: the manager afterwards, the error thrown ("" when none) and
\* the count returned
revealLetter(sm, letter) ==
  IF ~isValidLetter(letter)
    THEN [sm |-> sm, error |-> "Invalid letter provided", instances |-> 0]
  ELSE IF Len(sm.currentSentence) = 0
    THEN [sm |-> sm, error |-> "No sentence loaded", instances |-> 0]
  ELSE [sm |-> [sm EXCEPT !.revealedLetters = @ \cup {normalizeLetter(letter)}],
        error |-> "",
        instances |-> CountInstances(sm.normalizedSentence, normalizeLetter(letter)[1])]

isLetterInSentence(sm, letter) ==
  IF ~isValidLetter(letter) THEN FALSE
  ELSE IF Len(sm.currentSentence) = 0 THEN FALSE
  ELSE normalizeLetter(letter)[1] \in Chars(sm.normalizedSentence)

\* a lookup of the character as written, not of its uppercase form
DisplayChar_CaseSensitive(ch, revealed) ==
  IF IsUpperAlpha(CharToUpperCase(ch)) /\ <<ch>> \notin revealed
    THEN "_"
    ELSE ch

\* one character of getDisplaySentence (lines 106-114)
DisplayChar(ch, revealed) ==
  IF IsUpperAlpha(CharToUpperCase(ch)) /\ <<CharToUpperCase(ch)>> \notin revealed
    THEN "_"
    ELSE ch

getDisplaySentence(sm) ==
  IF Len(sm.currentSentence) = 0 THEN <<>>
  ELSE [i \in 1..Len(sm.currentSentence) |->
          DisplayChar(sm.currentSentence[i], sm.revealedLetters)]

getOriginalSentence(sm) == sm.currentSentence

getRevealedLetters(sm) == sm.revealedLetters

\* a sentence that is never found complete
SentenceManager_isComplete_Never(sm) == FALSE

\* a completion check that walks the sentence as written
SentenceManager_isComplete_OriginalCase(sm) ==
  IF Len(sm.currentSentence) = 0 THEN FALSE
  ELSE \A i \in 1..Len(sm.currentSentence) :
         ~(IsUpperAlpha(sm.currentSentence[i])
           /\ <<sm.currentSentence[i]>> \notin sm.revealedLetters)

SentenceManager_isComplete(sm) ==
  IF Len(sm.currentSentence) = 0 THEN FALSE
  ELSE \A i \in 1..Len(sm.normalizedSentence) :
         ~(IsUpperAlpha(sm.normalizedSentence[i])
           /\ <<sm.normalizedSentence[i]>> \notin sm.revealedLetters)

SentenceManager_reset(sm) ==
  [currentSentence |-> <<>>, normalizedSentence |-> <<>>, revealedLetters |-> {}]

getUniqueLetters(sm) ==
  {<<sm.normalizedSentence[i]>> : i \in {j \in 1..Len(sm.normalizedSentence) :
                                            IsUpperAlpha(sm.normalizedSentence[j])}}

-----------------------------------------------------------------------------
(* components/GameEngine: the operations as functions of the engine's fields *)

\* new GameEngine()
NewGameEngine ==
  [scoreCalculator |-> NewScoreCalculator,
   sentenceManager |-> NewSentenceManager,
   guessedLetters  |-> {},
   gameDate        |-> "",
   isGameComplete  |-> FALSE]

\* the engine held in the variables
ThisEngine ==
  [scoreCalculator |-> scoreCalculator,
   sentenceManager |-> sentenceManager,
   guessedLetters  |-> guessedLetters,
   gameDate        |-> gameDate,
   isGameComplete  |-> isGameComplete]

NoResult == [none |-> TRUE]

\* a guess that is never recorded
RecordGuess_Dropped(guessed, normalizedLetter) == guessed

\* the completion check without effect
CompletionLock_Off(e) == FALSE

\* if (this.isGameComplete)
CompletionLock(e) == e.isGameComplete

\* a lookup of the letter as typed
AlreadyGuessed_CaseSensitive(guessed, letter) == letter \in guessed

\* this.guessedLetters.has(letter.toUpperCase())
AlreadyGuessed(guessed, letter) == toUpperCase(letter) \in guessed

\* this.guessedLetters.add(normalizedLetter)
RecordGuess(guessed, normalizedLetter) == guessed \cup {normalizedLetter}

\* the accepted path of processGuess (lines 83-106): the engine afterwards
\* and the GuessResult
\* a guess that reveals its letter whether the sentence has it or not
AcceptGuess_RevealsAlways(e, normalizedLetter) ==
  LET isCorrect == isLetterInSentence(e.sentenceManager, normalizedLetter)
      revealed == IF Len(e.sentenceManager.currentSentence) > 0
                    THEN revealLetter(e.sentenceManager, normalizedLetter)
                  ELSE [sm |-> e.sentenceManager, error |-> "", instances |-> 0]
      scored == calculatePoints(e.scoreCalculator, revealed.instances, isCorrect)
      complete == SentenceManager_isComplete(revealed.sm)
  IN  [engine |-> [e EXCEPT !.guessedLetters = RecordGuess(@, normalizedLetter),
                            !.sentenceManager = revealed.sm,
                            !.scoreCalculator = scored.calc,
                            !.isGameComplete = complete],
       error  |-> "",
       result |-> [letter          |-> normalizedLetter,
                   isCorrect       |-> isCorrect,
                   letterInstances |-> revealed.instances,
                   scoreResult     |-> scored.result,
                   gameComplete    |-> complete,
                   displaySentence |-> getDisplaySentence(revealed.sm)]]

AcceptGuess(e, normalizedLetter) ==
  LET isCorrect == isLetterInSentence(e.sentenceManager, normalizedLetter)
      revealed == IF isCorrect THEN revealLetter(e.sentenceManager, normalizedLetter)
                  ELSE [sm |-> e.sentenceManager, error |-> "", instances |-> 0]
      scored == calculatePoints(e.scoreCalculator, revealed.instances, isCorrect)
      complete == SentenceManager_isComplete(revealed.sm)
  IN  [engine |-> [e EXCEPT !.guessedLetters = RecordGuess(@, normalizedLetter),
                            !.sentenceManager = revealed.sm,
                            !.scoreCalculator = scored.calc,
                            !.isGameComplete = complete],
       error  |-> "",
       result |-> [letter          |-> normalizedLetter,
                   isCorrect       |-> isCorrect,
                   letterInstances |-> revealed.instances,
                   scoreResult     |-> scored.result,
                   gameComplete    |-> complete,
                   displaySentence |-> getDisplaySentence(revealed.sm)]]

\* a processGuess that refuses to run before a sentence is loaded
processGuess_NeedsSentence(e, letter) ==
  IF ~isValidLetter(letter)
    THEN [engine |-> e, error |-> "Invalid letter provided", result |-> NoResult]
  ELSE IF Len(e.sentenceManager.currentSentence) = 0
    THEN [engine |-> e, error |-> "No sentence loaded", result |-> NoResult]
  ELSE IF CompletionLock(e)
    THEN [engine |-> e, error |-> "Game is already complete", result |-> NoResult]
  ELSE IF AlreadyGuessed(e.guessedLetters, letter)
    THEN [engine |-> e, error |-> "Letter has already been guessed",
          result |-> NoResult]
  ELSE AcceptGuess(e, toUpperCase(letter))

\* processGuess: the engine afterwards, the error thrown ("" when none) and
\* the GuessResult returned
processGuess(e, letter) ==
  IF ~isValidLetter(letter)
    THEN [engine |-> e, error |-> "Invalid letter provided", result |-> NoResult]
  ELSE IF CompletionLock(e)
    THEN [engine |-> e, error |-> "Game is already complete", result |-> NoResult]
  ELSE IF AlreadyGuessed(e.guessedLetters, letter)
    THEN [engine |-> e, error |-> "Letter has already been guessed",
          result |-> NoResult]
  ELSE AcceptGuess(e, toUpperCase(letter))

getGameState(e) ==
  [currentSentence    |-> getOriginalSentence(e.sentenceManager),
   revealedLetters    |-> getRevealedLetters(e.sentenceManager),
   guessedLetters     |-> e.guessedLetters,
   score              |-> getCurrentScore(e.scoreCalculator),
   streakMultiplier   |-> getCurrentMultiplier(e.scoreCalculator),
   consecutiveCorrect |-> getConsecutiveCorrect(e.scoreCalculator),
   isComplete         |-> e.isGameComplete,
   gameDate           |-> e.gameDate]

\* getTodayDateString(): the current date of the run
Today == "2024-01-02"

\* an initialization that keeps the letters guessed so far
initializeGameBegin_KeepGuessed(e, date) ==
  [e EXCEPT !.gameDate = IF date # "" THEN date ELSE Today,
            !.scoreCalculator = initializeState(@, 0, 0, One),
            !.sentenceManager = SentenceManager_reset(@),
            !.isGameComplete = FALSE]

\* initializeGame up to its await (lines 51-57)
initializeGameBegin(e, date) ==
  [e EXCEPT !.gameDate = IF date # "" THEN date ELSE Today,
            !.scoreCalculator = initializeState(@, 0, 0, One),
            !.sentenceManager = SentenceManager_reset(@),
            !.guessedLetters = {},
            !.isGameComplete = FALSE]

\* restoreGameState up to its await (line 215)
restoreGameStateBegin(e, gameState) ==
  [e EXCEPT !.gameDate = gameState.gameDate]

\* the for-loop of restoreGameState (lines 221-225); the result does not
\* depend on the iteration order
RECURSIVE RevealEach(_, _)
RevealEach(sm, letters) ==
  IF letters = {} THEN sm
  ELSE LET l == CHOOSE x \in letters : TRUE
           sm1 == IF isLetterInSentence(sm, l)
                    THEN revealLetter(sm, l).sm
                    ELSE sm
       IN  RevealEach(sm1, letters \ {l})

\* a restore that leaves guessedLetters as it finds it
restoreGameStateEnd_SkipGuessed(e, gameState) ==
  [e EXCEPT !.sentenceManager = RevealEach(@, gameState.revealedLetters),
            !.scoreCalculator = initializeState(@, gameState.score,
                                                gameState.consecutiveCorrect,
                                                gameState.streakMultiplier),
            !.isGameComplete = gameState.isComplete]

\* restoreGameState after a successful load (lines 220-238)
restoreGameStateEnd(e, gameState) ==
  [e EXCEPT !.sentenceManager = RevealEach(@, gameState.revealedLetters),
            !.scoreCalculator = initializeState(@, gameState.score,
                                                gameState.consecutiveCorrect,
                                                gameState.streakMultiplier),
            !.guessedLetters = gameState.guessedLetters,
            !.isGameComplete = gameState.isComplete]

\* a reset that keeps the date of the session
GameEngine_reset_KeepDate(e) ==
  [e EXCEPT !.scoreCalculator = initializeState(@, 0, 0, One),
            !.sentenceManager = SentenceManager_reset(@),
            !.guessedLetters = {},
            !.isGameComplete = FALSE]

GameEngine_reset(e) ==
  [e EXCEPT !.scoreCalculator = initializeState(@, 0, 0, One),
            !.sentenceManager = SentenceManager_reset(@),
            !.guessedLetters = {},
            !.isGameComplete = FALSE,
            !.gameDate = ""]

GameEngine_isComplete(e) == e.isGameComplete

\* the letters of 'ABCDEFGHIJKLMNOPQRSTUVWXYZ' that are not in guessedLetters
getRemainingLetters(e) ==
  {<<UpperAlphabet[i]>> : i \in 1..26} \ e.guessedLetters

-----------------------------------------------------------------------------
(* services/apiClient *)

\* DEFAULT_CONFIG
maxRetries == 3

retryDelay == 1000

retryMultiplier == 2

\* 60 * 60 * 1000: how long a fetched sentence stays in the cache
SentenceCacheTtl == 3600000

\* localScores.slice(0, 50)
LocalLeaderboardSize == 50

\* milliseconds in a day: new Date("YYYY-MM-DD").getTime() is a multiple of it
MsPerDay == 86400000

\* the status of an error that is not an ApiClientError (undefined)
NoStatus == 0 - 1

NoError ==
  [name |-> "", message |-> "", status |-> NoStatus, code |-> "",
   fetchInMessage |-> FALSE]

\* new ApiClientError(message, status, code)
ApiClientError(message, status, code) ==
  [name |-> "ApiClientError", message |-> message, status |-> status,
   code |-> code, fetchInMessage |-> FALSE]

\* what one call of fetch can do: answer 2xx with a JSON body, answer with
\* another status, be aborted by the timeout, fail with the TypeError fetch
\* raises when the network is down (its message contains "fetch" in some
\* engines, not in others), or answer 2xx with a body that is not JSON
OkAnswer(data) == [kind |-> "ok", status |-> 200, data |-> data]

StatusAnswer(status) == [kind |-> "status", status |-> status, data |-> NoResult]

TimeoutAnswer == [kind |-> "timeout", status |-> 0, data |-> NoResult]

NetworkDownAnswer == [kind |-> "network", status |-> 0, data |-> NoResult]

LoadFailedAnswer == [kind |-> "loadfailed", status |-> 0, data |-> NoResult]

BadJsonAnswer == [kind |-> "badjson", status |-> 200, data |-> NoResult]

\* the error that reaches the catch block of makeRequest (lines 80-98)
CaughtError(answer) ==
  CASE answer.kind = "status" ->
         ApiClientError("HTTP error", answer.status, "")
    [] answer.kind = "timeout" ->
         [name |-> "AbortError", message |-> "The operation was aborted",
          status |-> NoStatus, code |-> "", fetchInMessage |-> FALSE]
    [] answer.kind = "network" ->
         [name |-> "TypeError", message |-> "Failed to fetch",
          status |-> NoStatus, code |-> "", fetchInMessage |-> TRUE]
    [] answer.kind = "loadfailed" ->
         [name |-> "TypeError", message |-> "Load failed",
          status |-> NoStatus, code |-> "", fetchInMessage |-> FALSE]
    [] OTHER ->
         [name |-> "SyntaxError", message |-> "Unexpected token",
          status |-> NoStatus, code |-> "", fetchInMessage |-> FALSE]

retryableStatuses == {408, 429, 500, 502, 503, 504}

\* a retry decision that does not count the attempts made
shouldRetry_AnyCount(error, retryCount) ==
  IF error.name = "ApiClientError"
    THEN \/ error.status = 0
         \/ error.status = NoStatus
         \/ error.code = "TIMEOUT"
         \/ error.status \in retryableStatuses
  ELSE error.name = "TypeError" /\ error.fetchInMessage

shouldRetry(error, retryCount) ==
  IF retryCount >= maxRetries THEN FALSE
  ELSE IF error.name = "ApiClientError"
    THEN \/ error.status = 0
         \/ error.status = NoStatus
         \/ error.code = "TIMEOUT"
         \/ error.status \in retryableStatuses
  ELSE error.name = "TypeError" /\ error.fetchInMessage

\* retryDelay * Math.pow(retryMultiplier, retryCount)
calculateRetryDelay(retryCount) == retryDelay * Pow(retryMultiplier, retryCount)

\* one pass through makeRequest(url, options, retryCount) given what fetch
\* did: it returns the data, throws, or sleeps and calls itself again
makeRequest(retryCount, answer) ==
  IF answer.kind = "ok"
    THEN [next |-> "return", data |-> answer.data, error |-> NoError, delay |-> 0]
  ELSE
    LET error == CaughtError(answer)
    IN  IF error.name = "AbortError"
          THEN [next |-> "throw", data |-> NoResult,
                error |-> ApiClientError("Request timeout", 408, "TIMEOUT"),
                delay |-> 0]
        ELSE IF error.name = "TypeError" /\ error.fetchInMessage
          THEN [next |-> "throw", data |-> NoResult,
                error |-> ApiClientError("Network error", 0, "NETWORK_ERROR"),
                delay |-> 0]
        ELSE IF shouldRetry(error, retryCount)
          THEN [next |-> "retry", data |-> NoResult, error |-> error,
                delay |-> calculateRetryDelay(retryCount)]
        ELSE [next |-> "throw", data |-> NoResult, error |-> error, delay |-> 0]

\* new Map()
EmptyCache == [key \in {} |-> NoResult]

\* `sentence:${date}`, `leaderboard:${limit}`
CacheKey(kind, arg) == <<kind, arg>>

\* getCachedData(key): the data when the entry is fresh; an expired entry is
\* deleted
getCachedData(c, key, t) ==
  IF key \in DOMAIN c /\ t - c[key].timestamp < c[key].ttl
    THEN [cache |-> c, hit |-> TRUE, data |-> c[key].data]
  ELSE [cache |-> [k \in DOMAIN c \ {key} |-> c[k]], hit |-> FALSE,
        data |-> NoResult]

setCachedData(c, key, data, ttlMs, t) ==
  [k \in DOMAIN c \cup {key} |->
     IF k = key THEN [data |-> data, timestamp |-> t, ttl |-> ttlMs] ELSE c[k]]

clearLeaderboardCache(c) ==
  [k \in {key \in DOMAIN c : key[1] # "leaderboard"} |-> c[k]]

\* "Reading books helps students learn new words and ideas."
FallbackOne ==
  <<"R","e","a","d","i","n","g"," ","b","o","o","k","s"," ","h","e","l",
    "p","s"," ","s","t","u","d","e","n","t","s"," ","l","e","a","r","n",
    " ","n","e","w"," ","w","o","r","d","s"," ","a","n","d"," ","i","d",
    "e","a","s",".">>

\* "Practice makes perfect when learning new skills."
FallbackTwo ==
  <<"P","r","a","c","t","i","c","e"," ","m","a","k","e","s"," ","p","e",
    "r","f","e","c","t"," ","w","h","e","n"," ","l","e","a","r","n","i",
    "n","g"," ","n","e","w"," ","s","k","i","l","l","s",".">>

\* "Science experiments help us understand how things work."
FallbackThree ==
  <<"S","c","i","e","n","c","e"," ","e","x","p","e","r","i","m","e","n",
    "t","s"," ","h","e","l","p"," ","u","s"," ","u","n","d","e","r","s",
    "t","a","n","d"," ","h","o","w"," ","t","h","i","n","g","s"," ","w",
    "o","r","k",".">>

\* "Teamwork makes difficult projects much easier to complete."
FallbackFour ==
  <<"T","e","a","m","w","o","r","k"," ","m","a","k","e","s"," ","d","i",
    "f","f","i","c","u","l","t"," ","p","r","o","j","e","c","t","s"," ",
    "m","u","c","h"," ","e","a","s","i","e","r"," ","t","o"," ","c","o",
    "m","p","l","e","t","e",".">>

\* "Exercise and healthy eating keep our bodies strong."
FallbackFive ==
  <<"E","x","e","r","c","i","s","e"," ","a","n","d"," ","h","e","a","l",
    "t","h","y"," ","e","a","t","i","n","g"," ","k","e","e","p"," ","o",
    "u","r"," ","b","o","d","i","e","s"," ","s","t","r","o","n","g",".">>

fallbackSentences ==
  <<FallbackOne, FallbackTwo, FallbackThree, FallbackFour, FallbackFive>>

\* new Date(date).getTime() in whole days (the string is a calendar date, so
\* the time is days * MsPerDay), or NaN for a string that is not a date
DateGetTime(date) ==
  CASE date = "2024-01-01" -> [nan |-> FALSE, days |-> 19723]
    [] date = "2024-01-02" -> [nan |-> FALSE, days |-> 19724]
    [] date = "1969-12-30" -> [nan |-> FALSE, days |-> 0 - 2]
    [] OTHER -> [nan |-> TRUE, days |-> 0]

\* getFallbackSentence: index = Math.abs(dateNum) % 5, computed on the
\* residues since days * MsPerDay does not fit the model's integers; with
\* dateNum = NaN the index is NaN and fallbackSentences[NaN] is undefined,
\* which is written <<>> here (both are falsy, neither is a string of
\* positive length)
getFallbackSentence(date) ==
  LET dateNum == DateGetTime(date)
      absDays == IF dateNum.days < 0 THEN 0 - dateNum.days ELSE dateNum.days
      index == ((absDays % 5) * (MsPerDay % 5)) % 5
  IN  [sentence   |-> IF dateNum.nan THEN <<>> ELSE fallbackSentences[index + 1],
       date       |-> date,
       difficulty |-> "medium",
       success    |-> TRUE,
       error      |-> ""]

\* getSentence after makeRequest has returned or thrown (lines 207-228)
getSentenceEnd(c, date, step, t) ==
  LET cacheKey == CacheKey("sentence", date)
  IN  IF step.next = "return"
        THEN [cache    |-> setCachedData(c, cacheKey, step.data, SentenceCacheTtl, t),
              response |-> step.data]
      ELSE IF cacheKey \in DOMAIN c
        THEN [cache |-> c, response |-> c[cacheKey].data]
      ELSE [cache |-> c, response |-> getFallbackSentence(date)]

\* localStorage before the client has written to it; an item that was never
\* set reads as the empty list (getLocalScores, getPendingSubmissions)
EmptyStorage == [leaderboard |-> <<>>, pendingSubmissions |-> <<>>]

getLocalScores(storage) == storage.leaderboard

getPendingSubmissions(storage) == storage.pendingSubmissions

\* localScores.sort((a, b) => b.cumulativeScore - a.cumulativeScore): the
\* sort is stable, so an entry comes after the entries with a larger score and
\* after the earlier entries with the same score
SortByScore(scores) ==
  LET place ==
        [i \in 1..Len(scores) |->
           1 + Cardinality({j \in 1..Len(scores) :
                              \/ scores[j].cumulativeScore > scores[i].cumulativeScore
                              \/ /\ scores[j].cumulativeScore = scores[i].cumulativeScore
                                 /\ j < i})]
  IN  [k \in 1..Len(scores) |-> scores[CHOOSE i \in 1..Len(scores) : place[i] = k]]

\* localScores.slice(0, 50)
TopScores(sorted) ==
  SubSeq(sorted, 1, IF Len(sorted) < LocalLeaderboardSize THEN Len(sorted)
                    ELSE LocalLeaderboardSize)

\* an update that counts the game but not its score
UpdateLocalScores_ScoreLost(localScores, submission) ==
  IF \E i \in 1..Len(localScores) : localScores[i].playerName = submission.playerName
    THEN LET i == CHOOSE j \in 1..Len(localScores) :
                    localScores[j].playerName = submission.playerName
         IN  [localScores EXCEPT ![i].gamesPlayed = @ + 1,
                                 ![i].lastPlayedDate = submission.gameDate]
  ELSE Append(localScores, [playerName      |-> submission.playerName,
                            cumulativeScore |-> 0,
                            gamesPlayed     |-> 1,
                            lastPlayedDate  |-> submission.gameDate])

\* storeScoreLocally, lines 295-308: the player's entry is updated or created
UpdateLocalScores(localScores, submission) ==
  IF \E i \in 1..Len(localScores) : localScores[i].playerName = submission.playerName
    THEN LET i == CHOOSE j \in 1..Len(localScores) :
                    /\ localScores[j].playerName = submission.playerName
                    /\ \A k \in 1..(j - 1) :
                         localScores[k].playerName # submission.playerName
         IN  [localScores EXCEPT ![i].cumulativeScore = @ + submission.dailyScore,
                                 ![i].gamesPlayed = @ + 1,
                                 ![i].lastPlayedDate = submission.gameDate]
  ELSE Append(localScores, [playerName      |-> submission.playerName,
                            cumulativeScore |-> submission.dailyScore,
                            gamesPlayed     |-> 1,
                            lastPlayedDate  |-> submission.gameDate])

\* storeScoreLocally: writes[1] and writes[2] tell whether the two
\* localStorage.setItem calls succeed; one that throws ends the method in its
\* catch, which only logs
storeScoreLocally(storage, submission, writes) ==
  LET topScores ==
        TopScores(SortByScore(UpdateLocalScores(getLocalScores(storage), submission)))
  IN  IF ~writes[1] THEN storage
      ELSE IF ~writes[2] THEN [storage EXCEPT !.leaderboard = topScores]
      ELSE [leaderboard        |-> topScores,
            pendingSubmissions |-> Append(getPendingSubmissions(storage), submission)]

SavedLocallyNotice == "Score saved locally. Will sync when connection is restored."

\* submitScore after makeRequest has returned or thrown (lines 268-284)
submitScoreEnd(c, storage, submission, step, writes) ==
  IF step.next = "return"
    THEN [cache |-> clearLeaderboardCache(c), storage |-> storage,
          response |-> step.data]
  ELSE [cache    |-> c,
        storage  |-> storeScoreLocally(storage, submission, writes),
        response |-> [success         |-> TRUE,
                      cumulativeScore |-> submission.dailyScore,
                      gamesPlayed     |-> 1,
                      error           |-> SavedLocallyNotice]]

\* checkApiHealth after makeRequest has returned or thrown (lines 455-459)
checkApiHealthEnd(step) ==
  IF step.next = "return" THEN step.data.success = TRUE ELSE FALSE

\* a filter that keeps no pending submission
RemainingSubmissions_DropAll(pendingList, successful) == <<>>

\* syncPendingSubmissions, lines 433-438: the pending submissions that match
\* no successful one in player name and game date
RemainingSubmissions(pendingList, successful) ==
  SelectSeq(pendingList,
            LAMBDA sub : ~\E k \in 1..Len(successful) :
                            /\ successful[k].playerName = sub.playerName
                            /\ successful[k].gameDate = sub.gameDate)

\* syncPendingSubmissions after its loop (lines 432-442): the list is written
\* only when a submission was posted; write tells whether
\* localStorage.setItem succeeds, and one that throws ends the call with its
\* exception
syncPendingSubmissionsEnd(storage, pendingList, successful, write) ==
  IF Len(successful) = 0 THEN [storage |-> storage, error |-> ""]
  ELSE IF ~write THEN [storage |-> storage, error |-> "QuotaExceededError"]
  ELSE [storage |-> [storage EXCEPT !.pendingSubmissions =
                       RemainingSubmissions(pendingList, successful)],
        error   |-> ""]

-----------------------------------------------------------------------------
(* worker/src/index.ts: the Cloudflare worker; strings are sequences of
   characters *)

maxNameLength == 50

MaxDailyScore == 1000000

\* the value of a decimal digit
DigitValue(ch) == CHOOSE n \in 0..9 : ToString(n) = ch

\* /^\d{4}-\d{2}-\d{2}$/
dateRegexTest(s) ==
  /\ Len(s) = 10
  /\ \A i \in {1, 2, 3, 4, 6, 7, 9, 10} : s[i] \in Digits
  /\ s[5] = "-"
  /\ s[8] = "-"

DateYear(s) ==
  1000 * DigitValue(s[1]) + 100 * DigitValue(s[2]) + 10 * DigitValue(s[3])
    + DigitValue(s[4])

DateMonth(s) == 10 * DigitValue(s[6]) + DigitValue(s[7])

DateDay(s) == 10 * DigitValue(s[9]) + DigitValue(s[10])

DaysInMonth(year, month) ==
  IF month = 2
    THEN (IF year % 4 = 0 /\ (year % 100 # 0 \/ year % 400 = 0) THEN 29 ELSE 28)
  ELSE IF month \in {4, 6, 9, 11} THEN 30
  ELSE 31

\* new Date(s + 'T00:00:00Z') is a date and toISOString() prints it as s:
\* s names a day of the calendar
isCalendarDate(s) ==
  /\ DateMonth(s) \in 1..12
  /\ DateDay(s) \in 1..DaysInMonth(DateYear(s), DateMonth(s))

\* the code unit of a character of a string the date pattern accepts
CodeUnit(ch) == IF ch = "-" THEN 45 ELSE 48 + DigitValue(ch)

\* a < b on two such strings: the comparison of JavaScript, code unit by
\* code unit
StringLess(a, b) ==
  \/ \E i \in 1..(IF Len(a) < Len(b) THEN Len(a) ELSE Len(b)) :
       /\ \A j \in 1..(i - 1) : a[j] = b[j]
       /\ CodeUnit(a[i]) < CodeUnit(b[i])
  \/ /\ Len(a) < Len(b)
     /\ \A j \in 1..Len(a) : a[j] = b[j]

\* "2023-01-01"
YearBeforeDayOne == <<"2","0","2","3","-","0","1","-","0","1">>

\* "2023-12-31" ... "2024-01-04"
DayBefore == <<"2","0","2","3","-","1","2","-","3","1">>

DayOne == <<"2","0","2","4","-","0","1","-","0","1">>

DayTwo == <<"2","0","2","4","-","0","1","-","0","2">>

DayThree == <<"2","0","2","4","-","0","1","-","0","3">>

DayFour == <<"2","0","2","4","-","0","1","-","0","4">>

\* new Date().toISOString().split('T')[0] on the worker's clock
ServerDate(day) ==
  CASE day = 0 -> DayOne
    [] day = 1 -> DayTwo
    [] day = 2 -> DayThree
    [] OTHER -> DayFour

\* oneYearAgo.setFullYear(oneYearAgo.getFullYear() - 1), printed as a date:
\* the year of today less one (no day of the model is a 29 February)
OneYearBefore(today) ==
  LET year == DateYear(today) - 1
  IN  <<ToString(year \div 1000), ToString((year \div 100) % 10),
        ToString((year \div 10) % 10), ToString(year % 10)>>
        \o SubSeq(today, 5, 10)

\* the body of an error answer of the sentence endpoint
SentenceError(status, error, date) ==
  [status |-> status, success |-> FALSE, error |-> error, sentence |-> <<>>,
   date |-> date, difficulty |-> ""]

\* a validation that lets the dates after today through
validateSentenceDate_NoFutureCheck(rest, today) ==
  IF Len(rest) = 0
    THEN [go |-> FALSE, response |-> SentenceError(400, "Invalid date format", <<>>)]
  ELSE IF ~dateRegexTest(rest)
    THEN [go |-> FALSE,
          response |-> SentenceError(400, "Date must be in YYYY-MM-DD format", rest)]
  ELSE IF ~isCalendarDate(rest)
    THEN [go |-> FALSE,
          response |-> SentenceError(400, "Invalid date provided", rest)]
  ELSE IF StringLess(rest, OneYearBefore(today))
    THEN [go |-> FALSE,
          response |-> SentenceError(400, "Date too far in the past", rest)]
  ELSE [go |-> TRUE, response |-> NoResult]

\* handleSentenceRequest up to its await (lines 179-209); rest is what follows
\* /api/sentence/ in the path, today the date of the worker's clock
validateSentenceDate(rest, today) ==
  IF Len(rest) = 0
    THEN [go |-> FALSE, response |-> SentenceError(400, "Invalid date format", <<>>)]
  ELSE IF ~dateRegexTest(rest)
    THEN [go |-> FALSE,
          response |-> SentenceError(400, "Date must be in YYYY-MM-DD format", rest)]
  ELSE IF ~isCalendarDate(rest)
    THEN [go |-> FALSE,
          response |-> SentenceError(400, "Invalid date provided", rest)]
  ELSE IF StringLess(today, rest)
    THEN [go |-> FALSE,
          response |-> SentenceError(403, "Cannot access future sentences", rest)]
  ELSE IF StringLess(rest, OneYearBefore(today))
    THEN [go |-> FALSE,
          response |-> SentenceError(400, "Date too far in the past", rest)]
  ELSE [go |-> TRUE, response |-> NoResult]

\* handleSentenceRequest after env.SENTENCES_KV.get (lines 216-237): got.threw
\* tells whether the read failed, got.found whether the key exists
sentenceFromKv(requestedDate, got) ==
  IF got.threw
    THEN SentenceError(500, "Failed to retrieve sentence", requestedDate)
  ELSE IF ~got.found
    THEN SentenceError(404, "No sentence available for this date", requestedDate)
  ELSE [status |-> 200, success |-> TRUE, error |-> "",
        sentence |-> got.data.sentence, date |-> requestedDate,
        difficulty |-> IF got.data.difficulty = "" THEN "medium"
                       ELSE got.data.difficulty]

\* playerName.trim().replace(/[<>"'&]/g, '').substring(0, maxNameLength)
sanitizeName(playerName) ==
  LET cleaned == SelectSeq(trim(playerName),
                           LAMBDA ch : ch \notin {"<", ">", "\"", "'", "&"})
  IN  SubSeq(cleaned, 1,
             IF Len(cleaned) < maxNameLength THEN Len(cleaned) ELSE maxNameLength)

\* the body of an error answer of the score endpoint
ScoreError(status, error) == [status |-> status, success |-> FALSE, error |-> error]

\* handleScoreSubmission up to its first query (lines 246-277)
validateSubmission(body, today) ==
  IF Len(trim(body.playerName)) = 0
    THEN [go |-> FALSE, response |-> ScoreError(400, "Player name is required")]
  ELSE IF body.dailyScore < 0 \/ body.dailyScore > MaxDailyScore
    THEN [go |-> FALSE,
          response |-> ScoreError(400,
            "Daily score must be a valid integer between 0 and 1,000,000")]
  ELSE IF ~dateRegexTest(body.gameDate)
    THEN [go |-> FALSE,
          response |-> ScoreError(400, "Valid game date is required (YYYY-MM-DD)")]
  ELSE IF StringLess(today, body.gameDate)
    THEN [go |-> FALSE,
          response |-> ScoreError(403, "Cannot submit scores for future dates")]
  ELSE IF Len(sanitizeName(body.playerName)) = 0
    THEN [go |-> FALSE,
          response |-> ScoreError(400, "Player name contains invalid characters")]
  ELSE [go |-> TRUE, response |-> NoResult]

\* SELECT daily_score FROM daily_scores WHERE player_name = ? AND game_date = ?
\* has a row
selectDailyScore(rows, name, date) ==
  \E i \in 1..Len(rows) : rows[i].player_name = name /\ rows[i].game_date = date

\* an INSERT on a table without its UNIQUE constraint
insertDailyScore_NoUnique(rows, table, enforced, name, date, score) ==
  IF enforced /\ name \notin DOMAIN table
    THEN [rows |-> rows, error |-> "FOREIGN KEY constraint failed"]
  ELSE [rows  |-> Append(rows, [player_name |-> name, game_date |-> date,
                                daily_score |-> score]),
        error |-> ""]

\* INSERT INTO daily_scores (line 289) under the constraints of schema.sql:
\* UNIQUE(player_name, game_date), and FOREIGN KEY (player_name) REFERENCES
\* players(player_name) where the database enforces foreign keys
insertDailyScore(rows, table, enforced, name, date, score) ==
  IF selectDailyScore(rows, name, date)
    THEN [rows |-> rows, error |-> "UNIQUE constraint failed"]
  ELSE IF enforced /\ name \notin DOMAIN table
    THEN [rows |-> rows, error |-> "FOREIGN KEY constraint failed"]
  ELSE [rows  |-> Append(rows, [player_name |-> name, game_date |-> date,
                                daily_score |-> score]),
        error |-> ""]

\* SELECT cumulative_score, games_played FROM players WHERE player_name = ?
selectPlayer(table, name) ==
  IF name \in DOMAIN table
    THEN [found |-> TRUE, cumulative_score |-> table[name].cumulative_score,
          games_played |-> table[name].games_played]
  ELSE [found |-> FALSE, cumulative_score |-> 0, games_played |-> 0]

\* UPDATE players SET ... WHERE player_name = ? with the values computed from
\* the row read before (lines 300-305)
updatePlayer(table, name, existingPlayer, dailyScore, date) ==
  IF name \in DOMAIN table
    THEN [table EXCEPT ![name] =
            [cumulative_score |-> existingPlayer.cumulative_score + dailyScore,
             games_played     |-> existingPlayer.games_played + 1,
             last_played      |-> date]]
  ELSE table

\* INSERT INTO players (lines 308-310): player_name is the PRIMARY KEY
insertPlayer(table, name, dailyScore, date) ==
  IF name \in DOMAIN table
    THEN [table |-> table, error |-> "UNIQUE constraint failed"]
  ELSE [table |-> table @@ (name :> [cumulative_score |-> dailyScore,
                                     games_played     |-> 1,
                                     last_played      |-> date]),
        error |-> ""]

\* the answer to an accepted submission (lines 313-327)
ScoreAccepted(name, body) ==
  [status |-> 200, success |-> TRUE, error |-> "", playerName |-> name,
   dailyScore |-> body.dailyScore, gameDate |-> body.gameDate]

\* requests.filter((timestamp) => timestamp > windowStart), with
\* windowStart = now - rateLimitWindow
recentRequests(stored, t) ==
  SelectSeq(stored, LAMBDA timestamp : timestamp > t - RateLimitWindow)

\* Math.min(...recentRequests) of a list that is not empty
oldestRequest(recent) ==
  CHOOSE m \in {recent[i] : i \in 1..Len(recent)} :
    \A i \in 1..Len(recent) : m <= recent[i]

\* checkRateLimit once SENTENCES_KV.get has answered with the stored list (a
\* key that is missing or has expired reads as the empty list) or has thrown:
\* the verdict, and the list handed to SENTENCES_KV.put if there is one.
\* The key expires rateLimitWindow + 60 seconds after its last put, when
\* every timestamp in it has left the window, so that expiry changes no
\* verdict.
checkRateLimit(stored, t, threw) ==
  LET recent == recentRequests(stored, t)
  IN  IF threw
        THEN [allowed |-> TRUE, retryAfter |-> 0, put |-> FALSE, list |-> <<>>]
      ELSE IF Len(recent) >= RateLimitRequests
        THEN [allowed    |-> FALSE,
              retryAfter |-> Max(oldestRequest(recent) + RateLimitWindow - t, 1),
              put        |-> FALSE,
              list       |-> <<>>]
      ELSE [allowed |-> TRUE, retryAfter |-> 0, put |-> TRUE,
            list |-> Append(recent, t)]

\* the response of fetch to GET /health: 429 with a Retry-After header when
\* the rate limiter refuses the request, else 200
healthResponse(verdict) ==
  IF verdict.allowed
    THEN [status |-> 200, error |-> "", retryAfter |-> 0]
  ELSE [status |-> 429, error |-> "Rate limit exceeded. Please try again later.",
        retryAfter |-> verdict.retryAfter]

-----------------------------------------------------------------------------
(* The caller's inputs and the sentence source *)

Dates == {"2024-01-01", "2024-01-02"}

\* the date argument of initializeGame; "" stands for an omitted date
DateInputs == Dates \cup {""}

\* "Aba, a Cab!"
SentenceOne == <<"A","b","a",","," ","a"," ","C","a","b","!">>

\* " Dad-a 2 Add. " (the payload carries surrounding blanks)
SentenceTwo == <<" ","D","a","d","-","a"," ","2"," ","A","d","d","."," ">>

\* "Hi!"
ShortSentence == <<"H","i","!">>

StoredSentence(date) == IF date = "2024-01-01" THEN SentenceOne ELSE SentenceTwo

\* "Hi there!": nine characters
NineCharSentence == <<"H","i"," ","t","h","e","r","e","!">>

\* 201 letters
LongSentence == [i \in 1..201 |-> "a"]

\* " 1234567890 ": no letter
DigitsSentence == <<" ","1","2","3","4","5","6","7","8","9","0"," ">>

\* "Aba, a Cab #1": "#" is not an allowed character
HashSentence == <<"A","b","a",","," ","a"," ","C","a","b"," ","#","1">>

\* payloads that must not become the sentence of a game
InvalidSentences ==
  {ShortSentence, NineCharSentence, LongSentence, DigitsSentence, HashSentence}

\* what apiClient.getSentence(date) can resolve with
SentenceResponses(date) ==
  {[success |-> FALSE, sentence |-> <<>>, error |-> "Sentence not found"],
   [success |-> FALSE, sentence |-> SentenceOne, error |-> ""],
   [success |-> TRUE, sentence |-> <<>>, error |-> ""]}
  \cup {[success |-> TRUE, sentence |-> snt, error |-> ""] : snt \in InvalidSentences}
  \cup (IF date \in Dates
          THEN {[success |-> TRUE, sentence |-> StoredSentence(date), error |-> ""]}
          ELSE {})

\* the letter argument of processGuess, well formed or not
GuessInputs ==
  {<<"A">>, <<"a">>, <<"B">>, <<"b">>, <<"C">>, <<"d">>,
   <<>>, <<"A","B">>, <<"1">>}

\* arguments of setScore and initializeState on a bare calculator
ScoreInputs == {0 - 5, 0, 5, 50}

CountInputs == {0 - 1, 0, 2}

MultiplierInputs == {Rat(1, 2), One, Rat(9, 4)}

\* the date argument of ApiClient.getSentence
ApiDateInputs == {"2024-01-01", "1969-12-30", "not-a-date"}

\* the submissions handed to ApiClient.submitScore
SubmissionInputs ==
  {[playerName |-> "Ann", dailyScore |-> 40, gameDate |-> "2024-01-01"],
   [playerName |-> "Bob", dailyScore |-> 120, gameDate |-> "2024-01-02"]}

\* a local leaderboard that is full: fifty players with 100 points each, Bob
\* the last of them
FullLeaderboard ==
  [i \in 1..LocalLeaderboardSize |->
     [playerName      |-> IF i = LocalLeaderboardSize THEN "Bob"
                          ELSE "Player" \o ToString(i),
      cumulativeScore |-> 100,
      gamesPlayed     |-> 1,
      lastPlayedDate  |-> "2023-12-31"]]

\* what localStorage holds when the page is opened
StorageInputs ==
  {EmptyStorage, [leaderboard |-> FullLeaderboard, pendingSubmissions |-> <<>>]}

\* the JSON body the server sends with a 2xx answer to the request
ServerData(request) ==
  IF request.op = "submitScore"
    THEN [success |-> TRUE, cumulativeScore |-> request.arg.dailyScore + 100,
          gamesPlayed |-> 2, error |-> ""]
  ELSE IF request.op = "syncPendingSubmissions"
    THEN [success |-> TRUE,
          cumulativeScore |-> request.arg[request.index].dailyScore + 100,
          gamesPlayed |-> 2, error |-> ""]
  ELSE [sentence |-> StoredSentence(request.arg), date |-> request.arg,
        difficulty |-> "easy", success |-> TRUE, error |-> ""]

\* the ways a fetch can fail without an answer from the server, or with one
\* that cannot be read
Failures == {TimeoutAnswer, NetworkDownAnswer, LoadFailedAnswer, BadJsonAnswer}

\* what the network can do with one fetch of the request, the statuses of
\* error answers and the other failures being drawn from the given sets
Answers(request, statuses, failures) ==
  {OkAnswer(ServerData(request))} \cup failures
  \cup {StatusAnswer(status) : status \in statuses}

\* whether the two localStorage.setItem calls of storeScoreLocally succeed
WriteInputs == {<<TRUE, TRUE>>, <<TRUE, FALSE>>, <<FALSE, FALSE>>}

\* player names sent to the worker: "Ann", " <Ann> " and "<>"
NameAnn == <<"A","n","n">>

NameAnnInTags == <<" ","<","A","n","n",">"," ">>

NameOnlyTags == <<"<",">">>

\* the bodies posted to /api/scores
WorkerSubmissionInputs ==
  {[playerName |-> NameAnn, dailyScore |-> 10, gameDate |-> DayBefore],
   [playerName |-> NameAnn, dailyScore |-> 40, gameDate |-> DayOne],
   [playerName |-> NameAnnInTags, dailyScore |-> 25, gameDate |-> DayOne],
   [playerName |-> NameAnn, dailyScore |-> 60, gameDate |-> YearBeforeDayOne],
   [playerName |-> NameOnlyTags, dailyScore |-> 0 - 1, gameDate |-> DayTwo]}

\* "2022-12-31", "2024-02-30", "2024-1-9" and "tomorrow"
TwoYearsBack == <<"2","0","2","2","-","1","2","-","3","1">>

NoSuchDay == <<"2","0","2","4","-","0","2","-","3","0">>

ShortDate == <<"2","0","2","4","-","1","-","9">>

Tomorrow == <<"t","o","m","o","r","r","o","w">>

\* what follows /api/sentence/ in the path of a request
SentencePathInputs ==
  {<<>>, DayBefore, DayOne, DayTwo, DayThree, YearBeforeDayOne, TwoYearsBack,
   NoSuchDay, ShortDate, Tomorrow}

\* SENTENCES_KV: the sentences are stored ahead of their day; the key
\* sentence:2023-01-01 does not exist, and the data of 2024-01-01 has no
\* difficulty
KvSentenceDates == {TwoYearsBack, DayBefore, DayOne, DayTwo, DayThree, DayFour}

KvSentence(date) ==
  [sentence   |-> IF date = DayOne THEN SentenceOne ELSE SentenceTwo,
   difficulty |-> IF date = DayOne THEN "" ELSE "easy"]

\* env.SENTENCES_KV.get(sentenceKey, 'json')
KvGet(date, threw) ==
  [threw |-> threw, found |-> date \in KvSentenceDates, data |-> KvSentence(date)]

-----------------------------------------------------------------------------
(* The state machine *)

InitEngine ==
  /\ scoreCalculator = NewGameEngine.scoreCalculator
  /\ sentenceManager = NewGameEngine.sentenceManager
  /\ guessedLetters = NewGameEngine.guessedLetters
  /\ gameDate = NewGameEngine.gameDate
  /\ isGameComplete = NewGameEngine.isGameComplete
  /\ pending = <<>>
  /\ lastCall = [op |-> "new", arg |-> NoResult, status |-> "returned",
                 error |-> "", result |-> NoResult, before |-> NoResult]
  /\ streak = 0

NoResponse == [kind |-> "none"]

\* the CF-Connecting-IP of the clients; 'unknown' when the header is missing
ClientIPs == {"203.0.113.7", "unknown"}

\* a worker on an empty database, at 2024-01-01
InitWorker ==
  /\ serverDay = 0
  /\ dailyScores = <<>>
  /\ players = <<>>
  /\ handlers = <<>>
  /\ lastResponse = NoResponse
  /\ rateLimit = [seconds |-> 0,
                  kv      |-> [ip \in ClientIPs |-> <<>>],
                  checks  |-> <<>>,
                  puts    |-> <<>>,
                  arrived |-> 0,
                  failed  |-> FALSE,
                  allowed |-> <<>>]
  /\ ledger = [accepted |-> <<>>, credited |-> <<>>]

\* a new engine and a new ApiClient on a browser with nothing stored
Init ==
  /\ InitEngine
  /\ cache = EmptyCache
  /\ localStorage = EmptyStorage
  /\ requests = <<>>
  /\ now = 0
  /\ InitWorker
  /\ foreignKeys = TRUE

\* the worker on a database that enforces foreign keys, as D1 does, or that
\* does not, as SQLite does unless told to
InitDeployed ==
  /\ InitEngine
  /\ cache = EmptyCache
  /\ localStorage = EmptyStorage
  /\ requests = <<>>
  /\ now = 0
  /\ InitWorker
  /\ foreignKeys \in BOOLEAN

\* a new ApiClient on a browser whose localStorage may hold a leaderboard
InitScores ==
  /\ InitEngine
  /\ cache = EmptyCache
  /\ localStorage \in StorageInputs
  /\ requests = <<>>
  /\ now = 0
  /\ InitWorker
  /\ foreignKeys = TRUE

Install(e) ==
  /\ scoreCalculator' = e.scoreCalculator
  /\ sentenceManager' = e.sentenceManager
  /\ guessedLetters' = e.guessedLetters
  /\ gameDate' = e.gameDate
  /\ isGameComplete' = e.isGameComplete

\* a call: its name and argument, whether it returned, threw or is awaiting,
\* the message thrown, the value returned, and the state it was made in
Call(op, arg, status, error, result, before) ==
  [op |-> op, arg |-> arg, status |-> status, error |-> error, result |-> result,
   before |-> before]

\* nobody is suspended in an await
Idle == pending = <<>>

RemoveAt(q, i) == SubSeq(q, 1, i - 1) \o SubSeq(q, i + 1, Len(q))

\* the streak history after a calculatePoints call
StreakAfter(isCorrect) ==
  IF ~isCorrect THEN 0 ELSE IF streak >= 0 THEN streak + 1 ELSE 0 - 1

\* engine.initializeGame(date), run to its await
InitializeGame(date) ==
  /\ Len(pending) < MaxPending
  /\ Install(initializeGameBegin(ThisEngine, date))
  /\ pending' = Append(pending, [op |-> "initializeGame", date |-> gameDate',
                                 arg |-> date,
                                 before |-> getGameState(ThisEngine)])
  /\ lastCall' = Call("initializeGame", date, "awaiting", "", NoResult,
                      getGameState(ThisEngine))
  /\ streak' = 0
  /\ UNCHANGED <<apiVars, workerVars>>

\* engine.restoreGameState(gameState), run to its await
RestoreGameState(gameState) ==
  /\ Len(pending) < MaxPending
  /\ Install(restoreGameStateBegin(ThisEngine, gameState))
  /\ pending' = Append(pending, [op |-> "restoreGameState", date |-> gameDate',
                                 arg |-> gameState,
                                 before |-> getGameState(ThisEngine)])
  /\ lastCall' = Call("restoreGameState", gameState, "awaiting", "", NoResult,
                      getGameState(ThisEngine))
  /\ UNCHANGED streak
  /\ UNCHANGED <<apiVars, workerVars>>

\* const fresh = new GameEngine(); fresh.restoreGameState(engine.getGameState()):
\* from here on the variables hold the fresh engine
RestoreOnNewEngine ==
  /\ Idle
  /\ gameDate # ""
  /\ LET gameState == getGameState(ThisEngine)
     IN  /\ Install(restoreGameStateBegin(NewGameEngine, gameState))
         /\ pending' = <<[op |-> "restoreGameState", date |-> gameDate',
                          arg |-> gameState,
                          before |-> getGameState(NewGameEngine)]>>
         /\ lastCall' = Call("restoreGameState", gameState, "awaiting", "", NoResult,
                             getGameState(NewGameEngine))
  /\ streak' = 0
  /\ UNCHANGED <<apiVars, workerVars>>

\* the sentence source answers a suspended call, which then runs to its end;
\* the record of the call keeps the response it got and the state it was made in
LoadResolve(i, response) ==
  LET call == pending[i]
      loaded == loadDailySentence(sentenceManager, response)
      e == [ThisEngine EXCEPT !.sentenceManager = loaded.sm]
  IN  /\ pending' = RemoveAt(pending, i)
      /\ IF loaded.error # ""
           THEN /\ UNCHANGED engineVars
                /\ lastCall' = Call(call.op, call.arg, "threw", loaded.error, response,
                                 call.before)
                /\ UNCHANGED streak
         ELSE IF call.op = "initializeGame"
           THEN /\ Install(e)
                /\ lastCall' = Call(call.op, call.arg, "returned", "", response,
                                 call.before)
                /\ UNCHANGED streak
         ELSE /\ Install(restoreGameStateEnd(e, call.arg))
              /\ lastCall' = Call(call.op, call.arg, "returned", "", response,
                               call.before)
              /\ streak' = 0 - 1
      /\ UNCHANGED <<apiVars, workerVars>>

Resolve == \E i \in 1..Len(pending) :
             \E response \in SentenceResponses(pending[i].date) :
               LoadResolve(i, response)

\* engine.processGuess(letter)
ProcessGuess(letter) ==
  LET r == processGuess(ThisEngine, letter)
  IN  /\ Install(r.engine)
      /\ lastCall' = Call("processGuess", letter,
                          IF r.error = "" THEN "returned" ELSE "threw",
                          r.error, r.result, getGameState(ThisEngine))
      /\ streak' = IF r.error = "" THEN StreakAfter(r.result.isCorrect) ELSE streak
      /\ UNCHANGED pending
      /\ UNCHANGED <<apiVars, workerVars>>

\* engine.reset()
Reset ==
  /\ Install(GameEngine_reset(ThisEngine))
  /\ lastCall' = Call("reset", NoResult, "returned", "", NoResult,
                      getGameState(ThisEngine))
  /\ streak' = 0
  /\ UNCHANGED pending
  /\ UNCHANGED <<apiVars, workerVars>>

(* An ApiClient driven through its public methods *)

\* no ApiClient call is suspended in makeRequest
ApiIdle == requests = <<>>

\* the request of a suspended call; called is the cache and the storage as
\* they were when the call was made
NewRequest(op, arg) ==
  [op |-> op, arg |-> arg, retryCount |-> 0, answers |-> <<>>, delays |-> <<>>,
   called |-> [cache |-> cache, localStorage |-> localStorage]]

\* what an ApiClient call returned, the answers fetch gave to its request,
\* the delays slept between them, the error makeRequest threw (if any) and
\* the fate of the localStorage writes
ApiResult(response, answers, delays, error, writes) ==
  [response |-> response, answers |-> answers, delays |-> delays,
   error |-> error, writes |-> writes]

ApiState == [cache |-> cache, localStorage |-> localStorage]

\* apiClient.getSentence(date), run to its return or to its first fetch
ApiGetSentence(date) ==
  LET cached == getCachedData(cache, CacheKey("sentence", date), now)
  IN  /\ cache' = cached.cache
      /\ IF cached.hit
           THEN /\ lastCall' = Call("getSentence", date, "returned", "",
                                    ApiResult(cached.data, <<>>, <<>>, NoError,
                                              <<TRUE, TRUE>>),
                                    ApiState)
                /\ UNCHANGED requests
         ELSE /\ lastCall' = Call("getSentence", date, "awaiting", "", NoResult,
                                  ApiState)
              /\ requests' = Append(requests, NewRequest("getSentence", date))
      /\ UNCHANGED <<localStorage, now, engineVars, pending, streak,
                 workerVars>>

\* apiClient.submitScore(submission), run to its first fetch
ApiSubmitScore(submission) ==
  /\ Len(getPendingSubmissions(localStorage)) < MaxSubmissions
  /\ \A i \in 1..Len(getLocalScores(localStorage)) :
       getLocalScores(localStorage)[i].gamesPlayed <= MaxSubmissions
  /\ requests' = Append(requests, NewRequest("submitScore", submission))
  /\ lastCall' = Call("submitScore", submission, "awaiting", "", NoResult, ApiState)
  /\ UNCHANGED <<cache, localStorage, now, engineVars, pending, streak,
                 workerVars>>

\* apiClient.checkApiHealth(), run to its first fetch
ApiCheckHealth ==
  /\ requests' = Append(requests, NewRequest("checkApiHealth", Today))
  /\ lastCall' = Call("checkApiHealth", Today, "awaiting", "", NoResult, ApiState)
  /\ UNCHANGED <<cache, localStorage, now, engineVars, pending, streak,
                 workerVars>>

\* the request of a suspended syncPendingSubmissions: the pending list it
\* read, the position of its loop, the submissions posted so far and, for
\* each submission handled, whether it was posted
NewSync(pendingList) ==
  [op |-> "syncPendingSubmissions", arg |-> pendingList, retryCount |-> 0,
   answers |-> <<>>, delays |-> <<>>, index |-> 1, successful |-> <<>>,
   posted |-> <<>>]

\* apiClient.syncPendingSubmissions(), run to its return or to its first fetch
ApiSyncPendingSubmissions ==
  LET pendingList == getPendingSubmissions(localStorage)
  IN  /\ IF Len(pendingList) = 0
           THEN /\ lastCall' = Call("syncPendingSubmissions", pendingList,
                                    "returned", "",
                                    ApiResult(<<>>, <<>>, <<>>, NoError,
                                              <<TRUE, TRUE>>),
                                    ApiState)
                /\ UNCHANGED requests
         ELSE /\ lastCall' = Call("syncPendingSubmissions", pendingList,
                                  "awaiting", "", NoResult, ApiState)
              /\ requests' = Append(requests, NewSync(pendingList))
      /\ UNCHANGED <<cache, localStorage, now, engineVars, pending, streak,
                 workerVars>>

\* makeRequest has returned or thrown in the loop of syncPendingSubmissions:
\* the loop goes on with the next pending submission, or the call runs to its
\* end
SyncAttempt(i, step, answers, writes) ==
  LET request == requests[i]
      submission == request.arg[request.index]
      ok == IF step.next = "return" THEN step.data.success = TRUE ELSE FALSE
      successful == IF ok THEN Append(request.successful, submission)
                    ELSE request.successful
      posted == Append(request.posted, ok)
  IN  IF request.index < Len(request.arg)
        THEN /\ requests' = [requests EXCEPT ![i].index = @ + 1,
                                             ![i].retryCount = 0,
                                             ![i].answers = answers,
                                             ![i].successful = successful,
                                             ![i].posted = posted]
             /\ UNCHANGED <<cache, localStorage, lastCall>>
      ELSE LET end == syncPendingSubmissionsEnd(localStorage, request.arg,
                                                successful, writes[1])
           IN  /\ requests' = RemoveAt(requests, i)
               /\ localStorage' = end.storage
               /\ UNCHANGED cache
               /\ lastCall' =
                    Call(request.op, request.arg,
                         IF end.error = "" THEN "returned" ELSE "threw",
                         end.error,
                         ApiResult(posted, answers, request.delays, step.error,
                                   writes),
                         ApiState)

\* fetch answers the request of a suspended call: makeRequest either goes
\* round again or ends, and then the call runs to its return
Attempt(i, answer, writes) ==
  LET request == requests[i]
      step == makeRequest(request.retryCount, answer)
      answers == Append(request.answers, answer)
  IN  /\ IF step.next = "retry"
           THEN /\ requests' =
                     [requests EXCEPT ![i].retryCount = @ + 1,
                                      ![i].answers = answers,
                                      ![i].delays = Append(@, step.delay)]
                /\ UNCHANGED <<cache, localStorage, lastCall>>
         ELSE IF request.op = "syncPendingSubmissions"
           THEN SyncAttempt(i, step, answers, writes)
         ELSE /\ requests' = RemoveAt(requests, i)
              /\ CASE request.op = "getSentence" ->
                        LET end == getSentenceEnd(cache, request.arg, step, now)
                        IN  /\ cache' = end.cache
                            /\ UNCHANGED localStorage
                            /\ lastCall' =
                                 Call(request.op, request.arg, "returned", "",
                                      ApiResult(end.response, answers, request.delays,
                                                step.error, <<TRUE, TRUE>>),
                                      ApiState)
                                 @@ [called |-> request.called]
                   [] request.op = "submitScore" ->
                        LET end == submitScoreEnd(cache, localStorage, request.arg,
                                                  step, writes)
                        IN  /\ cache' = end.cache
                            /\ localStorage' = end.storage
                            /\ lastCall' =
                                 Call(request.op, request.arg, "returned", "",
                                      ApiResult(end.response, answers, request.delays,
                                                step.error, writes),
                                      ApiState)
                   [] OTHER ->
                        /\ UNCHANGED <<cache, localStorage>>
                        /\ lastCall' =
                             Call(request.op, request.arg, "returned", "",
                                  ApiResult(checkApiHealthEnd(step), answers,
                                            request.delays, step.error, <<TRUE, TRUE>>),
                                  ApiState)
      /\ UNCHANGED <<now, engineVars, pending, streak,
                 workerVars>>

\* time passes
Tick ==
  /\ now < MaxClock * ClockStep
  /\ now' = now + ClockStep
  /\ UNCHANGED <<cache, localStorage, requests, lastCall, engineVars, pending, streak,
                 workerVars>>

(* A SentenceManager driven directly through its public methods; the record
   of a call keeps the manager it was made on and the call made before it *)

ManagerBefore ==
  [manager |-> sentenceManager,
   call    |-> [op |-> lastCall.op, arg |-> lastCall.arg, status |-> lastCall.status,
                result |-> lastCall.result]]

\* await manager.loadDailySentence(date), the source answering with response
ManagerLoadDailySentence(date, response) ==
  LET loaded == loadDailySentence(sentenceManager, response)
  IN  /\ sentenceManager' = loaded.sm
      /\ lastCall' = Call("loadDailySentence", date,
                          IF loaded.error = "" THEN "returned" ELSE "threw",
                          loaded.error, loaded.sm.currentSentence, ManagerBefore)
      /\ UNCHANGED <<scoreCalculator, guessedLetters, gameDate, isGameComplete,
                     pending, streak, apiVars, workerVars>>

\* manager.revealLetter(letter)
ManagerRevealLetter(letter) ==
  LET r == revealLetter(sentenceManager, letter)
  IN  /\ sentenceManager' = r.sm
      /\ lastCall' = Call("revealLetter", letter,
                          IF r.error = "" THEN "returned" ELSE "threw",
                          r.error, r.instances, ManagerBefore)
      /\ UNCHANGED <<scoreCalculator, guessedLetters, gameDate, isGameComplete,
                     pending, streak, apiVars, workerVars>>

\* manager.isLetterInSentence(letter)
ManagerIsLetterInSentence(letter) ==
  /\ lastCall' = Call("isLetterInSentence", letter, "returned", "",
                      isLetterInSentence(sentenceManager, letter), ManagerBefore)
  /\ UNCHANGED <<engineVars, pending, streak, apiVars, workerVars>>

\* manager.reset()
ManagerReset ==
  /\ sentenceManager' = SentenceManager_reset(sentenceManager)
  /\ lastCall' = Call("reset", NoResult, "returned", "", NoResult, ManagerBefore)
  /\ UNCHANGED <<scoreCalculator, guessedLetters, gameDate, isGameComplete,
                 pending, streak, apiVars, workerVars>>

(* The worker, driven by the requests of its clients *)

clientVars == <<engineVars, pending, lastCall, streak, apiVars>>

\* the worker sends its response and the request is done
WorkerAnswer(i, response) ==
  /\ lastResponse' = [kind |-> handlers[i].kind, request |-> handlers[i].request,
                      response |-> response, today |-> handlers[i].today,
                      after |-> handlers[i].after]
  /\ handlers' = RemoveAt(handlers, i)

\* a submission of the pair was answered 200
Accepted(name, date) ==
  \E k \in 1..Len(ledger.accepted) :
    ledger.accepted[k].player_name = name /\ ledger.accepted[k].game_date = date

\* POST /api/scores arrives: handleScoreSubmission runs to its answer or to
\* its first query
HandleScoreSubmission(body) ==
  LET today == ServerDate(serverDay)
      checked == validateSubmission(body, today)
      name == sanitizeName(body.playerName)
  IN  /\ Len(handlers) < MaxHandlers
      /\ IF checked.go
           THEN /\ handlers' =
                     Append(handlers,
                            [kind |-> "scores", request |-> body, today |-> today,
                             name |-> name, pc |-> "selectDailyScore",
                             existingPlayer |-> selectPlayer(<<>>, name),
                             after |-> Accepted(name, body.gameDate)])
                /\ UNCHANGED lastResponse
         ELSE /\ lastResponse' = [kind |-> "scores", request |-> body,
                                  response |-> checked.response, today |-> today,
                                  after |-> Accepted(name, body.gameDate)]
              /\ UNCHANGED handlers
      /\ UNCHANGED <<serverDay, dailyScores, players, foreignKeys, ledger, clientVars,
                     rateLimit>>

\* lines 280-286: the query for an existing score of the pair
SelectDailyScore(i) ==
  LET h == handlers[i]
  IN  /\ h.kind = "scores" /\ h.pc = "selectDailyScore"
      /\ IF selectDailyScore(dailyScores, h.name, h.request.gameDate)
           THEN WorkerAnswer(i, ScoreError(409, "Score already submitted for this date"))
         ELSE /\ handlers' = [handlers EXCEPT ![i].pc = "insertDailyScore"]
              /\ UNCHANGED lastResponse
      /\ UNCHANGED <<serverDay, dailyScores, players, foreignKeys, ledger, clientVars,
                     rateLimit>>

\* lines 289-291: the INSERT into daily_scores; an exception of the database
\* is caught at line 328 and answered 500
InsertDailyScore(i) ==
  LET h == handlers[i]
      inserted == insertDailyScore(dailyScores, players, foreignKeys, h.name,
                                   h.request.gameDate, h.request.dailyScore)
  IN  /\ h.kind = "scores" /\ h.pc = "insertDailyScore"
      /\ IF inserted.error # ""
           THEN /\ WorkerAnswer(i, ScoreError(500, "Failed to submit score"))
                /\ UNCHANGED dailyScores
         ELSE /\ dailyScores' = inserted.rows
              /\ handlers' = [handlers EXCEPT ![i].pc = "selectPlayer"]
              /\ UNCHANGED lastResponse
      /\ UNCHANGED <<serverDay, players, foreignKeys, ledger, clientVars,
                     rateLimit>>

\* lines 294-296: the query for the player's row
SelectPlayer(i) ==
  LET h == handlers[i]
  IN  /\ h.kind = "scores" /\ h.pc = "selectPlayer"
      /\ handlers' = [handlers EXCEPT ![i].existingPlayer = selectPlayer(players, h.name),
                                      ![i].pc = "writePlayer"]
      /\ UNCHANGED <<serverDay, dailyScores, players, foreignKeys, lastResponse,
                     ledger, clientVars,
                     rateLimit>>

\* lines 298-327: the UPDATE or INSERT of the player's row, and the answer
WritePlayer(i) ==
  LET h == handlers[i]
      body == h.request
      inserted == insertPlayer(players, h.name, body.dailyScore, body.gameDate)
      written == [accepted |-> Append(ledger.accepted,
                                      [player_name |-> h.name,
                                       game_date   |-> body.gameDate,
                                       daily_score |-> body.dailyScore]),
                  credited |-> Append(ledger.credited, <<h.name, body.gameDate>>)]
  IN  /\ h.kind = "scores" /\ h.pc = "writePlayer"
      /\ IF h.existingPlayer.found
           THEN /\ players' = updatePlayer(players, h.name, h.existingPlayer,
                                           body.dailyScore, body.gameDate)
                /\ ledger' = written
                /\ WorkerAnswer(i, ScoreAccepted(h.name, body))
         ELSE IF inserted.error # ""
           THEN /\ WorkerAnswer(i, ScoreError(500, "Failed to submit score"))
                /\ UNCHANGED <<players, ledger>>
         ELSE /\ players' = inserted.table
              /\ ledger' = written
              /\ WorkerAnswer(i, ScoreAccepted(h.name, body))
      /\ UNCHANGED <<serverDay, dailyScores, foreignKeys, clientVars,
                     rateLimit>>

\* GET /api/sentence/<rest> arrives: handleSentenceRequest runs to its answer
\* or to its read of SENTENCES_KV
HandleSentenceRequest(rest) ==
  LET today == ServerDate(serverDay)
      checked == validateSentenceDate(rest, today)
  IN  /\ Len(handlers) < MaxHandlers
      /\ IF checked.go
           THEN /\ handlers' = Append(handlers,
                                      [kind |-> "sentence", request |-> rest,
                                       today |-> today, after |-> FALSE])
                /\ UNCHANGED lastResponse
         ELSE /\ lastResponse' = [kind |-> "sentence", request |-> rest,
                                  response |-> checked.response, today |-> today,
                                  after |-> FALSE]
              /\ UNCHANGED handlers
      /\ UNCHANGED <<serverDay, dailyScores, players, foreignKeys, ledger, clientVars,
                     rateLimit>>

\* lines 211-237: SENTENCES_KV answers, or fails, and the worker responds
SentenceKvGet(i, threw) ==
  LET h == handlers[i]
  IN  /\ h.kind = "sentence"
      /\ WorkerAnswer(i, sentenceFromKv(h.request, KvGet(h.request, threw)))
      /\ UNCHANGED <<serverDay, dailyScores, players, foreignKeys, ledger, clientVars,
                     rateLimit>>

\* midnight (UTC) passes on the worker
ServerTick ==
  /\ serverDay < MaxServerDays
  /\ serverDay' = serverDay + 1
  /\ UNCHANGED <<dailyScores, players, foreignKeys, handlers, lastResponse, ledger,
                 clientVars,
                     rateLimit>>

\* GET /health arrives from a client: fetch runs to the read of SENTENCES_KV
\* in checkRateLimit, with now = Math.floor(Date.now() / 1000)
FetchHealth(ip) ==
  /\ Len(rateLimit.checks) < MaxHandlers
  /\ rateLimit.arrived < MaxRequests
  /\ rateLimit' = [rateLimit EXCEPT
                     !.checks = Append(@, [ip |-> ip, now |-> rateLimit.seconds]),
                     !.arrived = @ + 1]
  /\ UNCHANGED <<serverDay, dailyScores, players, foreignKeys, handlers,
                 lastResponse, ledger, clientVars>>

\* SENTENCES_KV.get answers, or throws: checkRateLimit returns, the put of the
\* new list is handed to ctx.waitUntil and fetch responds
RateLimitKvGet(i, threw) ==
  LET check == rateLimit.checks[i]
      verdict == checkRateLimit(rateLimit.kv[check.ip], check.now, threw)
  IN  /\ rateLimit' = [rateLimit EXCEPT
                         !.checks = RemoveAt(@, i),
                         !.puts = IF verdict.put
                                    THEN Append(@, [ip |-> check.ip,
                                                    list |-> verdict.list])
                                  ELSE @,
                         !.failed = @ \/ threw,
                         !.allowed = IF verdict.allowed THEN Append(@, check)
                                     ELSE @]
      /\ lastResponse' = [kind |-> "health", request |-> check,
                          response |-> healthResponse(verdict),
                          today |-> ServerDate(serverDay), after |-> FALSE]
      /\ UNCHANGED <<serverDay, dailyScores, players, foreignKeys, handlers,
                     ledger, clientVars>>

\* a put handed to ctx.waitUntil reaches SENTENCES_KV
RateLimitKvPut(j) ==
  LET put == rateLimit.puts[j]
  IN  /\ rateLimit' = [rateLimit EXCEPT !.kv[put.ip] = put.list,
                                        !.puts = RemoveAt(@, j)]
      /\ UNCHANGED <<serverDay, dailyScores, players, foreignKeys, handlers,
                     lastResponse, ledger, clientVars>>

\* a second passes on the worker
SecondsTick ==
  /\ rateLimit.seconds < MaxSeconds
  /\ rateLimit' = [rateLimit EXCEPT !.seconds = @ + 1]
  /\ UNCHANGED <<serverDay, dailyScores, players, foreignKeys, handlers,
                 lastResponse, ledger, clientVars>>

(* A ScoreCalculator driven directly through its public methods *)

CalcCalculatePoints(letterInstances, isCorrect) ==
  /\ scoreCalculator.consecutiveCorrect < MaxStreak
  /\ scoreCalculator.currentScore <= MaxScore
  /\ LET r == calculatePoints(scoreCalculator, letterInstances, isCorrect)
     IN  /\ scoreCalculator' = r.calc
         /\ lastCall' = Call("calculatePoints", <<letterInstances, isCorrect>>,
                             "returned", "", r.result, scoreCalculator)
  /\ streak' = StreakAfter(isCorrect)
  /\ UNCHANGED <<sentenceManager, guessedLetters, gameDate, isGameComplete, pending>>
  /\ UNCHANGED <<apiVars, workerVars>>

CalcResetStreak ==
  /\ scoreCalculator' = resetStreak(scoreCalculator)
  /\ lastCall' = Call("resetStreak", NoResult, "returned", "", NoResult,
                      scoreCalculator)
  /\ streak' = 0 - 1
  /\ UNCHANGED <<sentenceManager, guessedLetters, gameDate, isGameComplete, pending>>
  /\ UNCHANGED <<apiVars, workerVars>>

CalcSetScore(score) ==
  /\ scoreCalculator' = setScore(scoreCalculator, score)
  /\ lastCall' = Call("setScore", score, "returned", "", NoResult, scoreCalculator)
  /\ UNCHANGED <<sentenceManager, guessedLetters, gameDate, isGameComplete, pending,
                 streak>>
  /\ UNCHANGED <<apiVars, workerVars>>

CalcInitializeState(score, consecutiveCorrect, multiplier) ==
  /\ scoreCalculator' =
       initializeState(scoreCalculator, score, consecutiveCorrect, multiplier)
  /\ lastCall' = Call("initializeState", <<score, consecutiveCorrect, multiplier>>,
                      "returned", "", NoResult, scoreCalculator)
  /\ streak' = 0 - 1
  /\ UNCHANGED <<sentenceManager, guessedLetters, gameDate, isGameComplete, pending>>
  /\ UNCHANGED <<apiVars, workerVars>>

-----------------------------------------------------------------------------
(* Specifications *)

\* snapshots handed to restoreGameState on the running engine
SnapshotInputs ==
  {[currentSentence |-> SentenceOne, revealedLetters |-> {<<"A">>, <<"B">>, <<"C">>},
    guessedLetters |-> {<<"A">>, <<"B">>, <<"C">>}, score |-> 75,
    streakMultiplier |-> Rat(27, 8), consecutiveCorrect |-> 3, isComplete |-> TRUE,
    gameDate |-> "2024-01-01"],
   [currentSentence |-> <<>>, revealedLetters |-> {<<"A">>, <<"z">>},
    guessedLetters |-> {}, score |-> 0 - 5, streakMultiplier |-> Rat(1, 2),
    consecutiveCorrect |-> 0 - 1, isComplete |-> FALSE, gameDate |-> "2024-01-01"],
   [currentSentence |-> SentenceTwo, revealedLetters |-> {<<"a">>, <<"b">>, <<"2">>},
    guessedLetters |-> {<<"a">>, <<"b">>}, score |-> 20,
    streakMultiplier |-> Rat(3, 2), consecutiveCorrect |-> 1, isComplete |-> TRUE,
    gameDate |-> "2024-01-02"]}

\* any caller: calls may be made while earlier ones are still suspended
Next ==
  \/ \E date \in DateInputs : InitializeGame(date)
  \/ \E gameState \in SnapshotInputs : RestoreGameState(gameState)
  \/ Resolve
  \/ \E letter \in GuessInputs : ProcessGuess(letter)
  \/ Reset

Spec == Init /\ [][Next]_vars

\* a caller that awaits every asynchronous call before making the next call
SessionInitializeGame == Idle /\ \E date \in DateInputs : InitializeGame(date)

SessionProcessGuess == Idle /\ \E letter \in GuessInputs : ProcessGuess(letter)

SessionReset == Idle /\ Reset

NextSession ==
  \/ SessionInitializeGame
  \/ Resolve
  \/ SessionProcessGuess
  \/ SessionReset
  \/ RestoreOnNewEngine

SpecSession == Init /\ [][NextSession]_vars

\* a caller that awaits every asynchronous call and also restores snapshots,
\* well formed or not, on the running engine
SessionRestoreGameState ==
  Idle /\ \E gameState \in SnapshotInputs : RestoreGameState(gameState)

NextCaller ==
  \/ SessionInitializeGame
  \/ SessionRestoreGameState
  \/ Resolve
  \/ SessionProcessGuess
  \/ SessionReset

SpecCaller == Init /\ [][NextCaller]_vars

\* a bare calculator
NextCalc ==
  \/ \E n \in (0 - 1)..MaxInstances : \E isCorrect \in BOOLEAN :
       CalcCalculatePoints(n, isCorrect)
  \/ CalcResetStreak
  \/ \E score \in ScoreInputs : CalcSetScore(score)
  \/ \E score \in ScoreInputs : \E count \in CountInputs :
       \E multiplier \in MultiplierInputs :
         CalcInitializeState(score, count, multiplier)

SpecCalc == Init /\ [][NextCalc]_vars

\* a caller that awaits every asynchronous call and restores no snapshot:
\* every session is one started by initializeGame
NextGame ==
  \/ SessionInitializeGame
  \/ Resolve
  \/ SessionProcessGuess
  \/ SessionReset

SpecGame == Init /\ [][NextGame]_vars

\* the letters of a caller that does not wait for initializeGame
EagerGuessInputs == {<<"a">>, <<"D">>, <<"1">>}

\* a caller that starts one session at a time and guesses whenever it likes,
\* also while initializeGame is still awaiting the sentence
EagerProcessGuess == \E letter \in EagerGuessInputs : ProcessGuess(letter)

NextEager ==
  \/ SessionInitializeGame
  \/ Resolve
  \/ EagerProcessGuess

SpecEager == Init /\ [][NextEager]_vars

\* a caller that starts or restores a session while an earlier call is still
\* awaiting its sentence; the sentence source answers every load with the
\* sentence of the date asked for, in any order
OverlapInitializeGame == \E date \in Dates : InitializeGame(date)

OverlapRestoreGameState == \E gameState \in SnapshotInputs : RestoreGameState(gameState)

OverlapResolve ==
  \E i \in 1..Len(pending) :
    LoadResolve(i, [success |-> TRUE, sentence |-> StoredSentence(pending[i].date),
                    error |-> ""])

NextOverlap ==
  \/ OverlapInitializeGame
  \/ OverlapRestoreGameState
  \/ OverlapResolve

SpecOverlap == Init /\ [][NextOverlap]_vars

\* getGameState() of a game of 2024-01-01 that was played on "Dad-a 2 Add."
\* (the sentence the source gave that day): A was guessed and found three
\* times, B was guessed and not found
OtherSentenceSnapshot ==
  [currentSentence |-> trim(SentenceTwo), revealedLetters |-> {<<"A">>},
   guessedLetters |-> {<<"A">>, <<"B">>}, score |-> 20,
   streakMultiplier |-> Rat(1, 1), consecutiveCorrect |-> 0, isComplete |-> FALSE,
   gameDate |-> "2024-01-01"]

\* a caller that awaits every asynchronous call and restores snapshots that
\* need not come from getGameState
StoredRestoreGameState ==
  Idle /\ \E gameState \in SnapshotInputs \cup {OtherSentenceSnapshot} :
           RestoreGameState(gameState)

NextStored ==
  \/ SessionInitializeGame
  \/ StoredRestoreGameState
  \/ Resolve
  \/ SessionProcessGuess

SpecStored == Init /\ [][NextStored]_vars

\* a calculator that is only asked for points and to reset its streak
NextStreak ==
  \/ \E n \in (0 - 1)..MaxInstances : \E isCorrect \in BOOLEAN :
       CalcCalculatePoints(n, isCorrect)
  \/ CalcResetStreak

SpecStreak == Init /\ [][NextStreak]_vars

\* what the source answers a bare manager: the sentence of the day, or none
ManagerResponses(date) ==
  {response \in SentenceResponses(date) : response.sentence \notin InvalidSentences}

\* a bare sentence manager
NextManager ==
  \/ \E date \in Dates : \E response \in ManagerResponses(date) :
       ManagerLoadDailySentence(date, response)
  \/ \E letter \in GuessInputs : ManagerRevealLetter(letter)
  \/ \E letter \in GuessInputs : ManagerIsLetterInSentence(letter)
  \/ ManagerReset

SpecManager == Init /\ [][NextManager]_vars

\* health checks against a network that can answer with any status
RetryStatuses == retryableStatuses \cup {400, 404}

RetryCheckHealth == ApiIdle /\ ApiCheckHealth

RetryAttempt ==
  \E answer \in Answers(requests[1], RetryStatuses, Failures) :
    Attempt(1, answer, <<TRUE, TRUE>>)

NextRetry ==
  \/ RetryCheckHealth
  \/ ~ApiIdle /\ RetryAttempt

SpecRetry == Init /\ [][NextRetry]_vars

\* error statuses of the network in the sentence and score specifications
FewStatuses == {404, 503}

\* sentences fetched one call at a time, while time passes
SentenceGetSentence == ApiIdle /\ \E date \in ApiDateInputs : ApiGetSentence(date)

SentenceAttempt ==
  \E answer \in Answers(requests[1], FewStatuses, Failures) :
    Attempt(1, answer, <<TRUE, TRUE>>)

NextSentence ==
  \/ SentenceGetSentence
  \/ ~ApiIdle /\ SentenceAttempt
  \/ Tick

SpecSentence == Init /\ [][NextSentence]_vars

\* scores submitted and pending submissions synchronised, one call at a time
ScoresSubmitScore ==
  ApiIdle /\ \E submission \in SubmissionInputs : ApiSubmitScore(submission)

ScoresAttempt ==
  \E answer \in Answers(requests[1], FewStatuses, {NetworkDownAnswer}) :
    \E writes \in WriteInputs : Attempt(1, answer, writes)

ScoresSyncPendingSubmissions == ApiIdle /\ ApiSyncPendingSubmissions

NextScores ==
  \/ ScoresSubmitScore
  \/ ScoresSyncPendingSubmissions
  \/ ~ApiIdle /\ ScoresAttempt

SpecScores == InitScores /\ [][NextScores]_vars

\* a client that submits scores while syncPendingSubmissions is running (the
\* 'online' handler and checkApiHealthAndSync start it on their own): at most
\* one call of each kind is suspended, and the network answers them in any
\* order
InFlight(op) == \E i \in 1..Len(requests) : requests[i].op = op

BusySubmitScore ==
  /\ ~InFlight("submitScore")
  /\ \E submission \in SubmissionInputs : ApiSubmitScore(submission)

BusySyncPendingSubmissions ==
  /\ ~InFlight("syncPendingSubmissions")
  /\ ApiSyncPendingSubmissions

BusyAttempt ==
  \E i \in 1..Len(requests) :
    \E answer \in Answers(requests[i], {}, {NetworkDownAnswer}) :
      Attempt(i, answer, <<TRUE, TRUE>>)

NextBusy ==
  \/ BusySubmitScore
  \/ BusySyncPendingSubmissions
  \/ BusyAttempt

SpecBusy == Init /\ [][NextBusy]_vars

\* score submissions handled by the worker, several at a time
NextWorkerScores ==
  \/ \E body \in WorkerSubmissionInputs : HandleScoreSubmission(body)
  \/ \E i \in 1..Len(handlers) : SelectDailyScore(i)
  \/ \E i \in 1..Len(handlers) : InsertDailyScore(i)
  \/ \E i \in 1..Len(handlers) : SelectPlayer(i)
  \/ \E i \in 1..Len(handlers) : WritePlayer(i)

SpecWorkerScores == InitDeployed /\ [][NextWorkerScores]_vars

\* sentence requests handled by the worker, several at a time
NextWorkerSentence ==
  \/ \E rest \in SentencePathInputs : HandleSentenceRequest(rest)
  \/ \E i \in 1..Len(handlers) : \E threw \in BOOLEAN : SentenceKvGet(i, threw)
  \/ ServerTick

SpecWorkerSentence == InitDeployed /\ [][NextWorkerSentence]_vars

\* requests passing the rate limiter, several at a time
NextRateLimit ==
  \/ \E ip \in ClientIPs : FetchHealth(ip)
  \/ \E i \in 1..Len(rateLimit.checks) : \E threw \in BOOLEAN : RateLimitKvGet(i, threw)
  \/ \E j \in 1..Len(rateLimit.puts) : RateLimitKvPut(j)
  \/ SecondsTick

SpecRateLimit == InitDeployed /\ [][NextRateLimit]_vars

-----------------------------------------------------------------------------
(* Properties *)

SentenceLoaded == Len(sentenceManager.currentSentence) > 0

\* the distinct letters of the loaded sentence, uppercase
UniqueLetters ==
  {<<CharToUpperCase(sentenceManager.currentSentence[i])>> :
     i \in {j \in 1..Len(sentenceManager.currentSentence) :
              IsAlpha(sentenceManager.currentSentence[j])}}

GuessCall == lastCall.op = "processGuess"

PointsCall == lastCall.op = "calculatePoints"

\* 1.5^k
OneAndAHalfTo(k) == Rat(Pow(3, k), Pow(2, k))

\* C1: in a session, after every processGuess call (accepted or rejected) the
\* revealed letters are a subset of the engine's guessedLetters.
C1_RevealedSubsetOfGuessed ==
  GuessCall => sentenceManager.revealedLetters \subseteq guessedLetters

C1_Witness ==
  /\ GuessCall /\ lastCall.status = "returned" /\ lastCall.result.isCorrect
  /\ SentenceLoaded
  /\ sentenceManager.revealedLetters # {}
  /\ guessedLetters \ sentenceManager.revealedLetters # {}

\* C2: on a calculator driven by any calls, the score is never negative, and
\* an incorrect guess made with a score below 10 leaves it at exactly 0.
C2_ScoreNeverNegative ==
  /\ scoreCalculator.currentScore >= 0
  /\ (PointsCall /\ ~lastCall.arg[2] /\ lastCall.before.currentScore < 10)
       => scoreCalculator.currentScore = 0

C2_Witness ==
  /\ PointsCall /\ ~lastCall.arg[2]
  /\ lastCall.before.currentScore = 5
  /\ scoreCalculator.currentScore = 0

\* C3: counting from a fresh calculator or from an incorrect guess, the correct
\* guess that follows n consecutive correct guesses reports multiplierUsed =
\* 1.5^n (exactly 1.0 for n = 0) and leaves the pending multiplier at 1.5^(n+1).
C3_MultiplierIsPowerOfStreak ==
  (PointsCall /\ lastCall.arg[2] /\ streak >= 1) =>
    LET n == streak - 1
    IN  /\ RatEq(lastCall.result.multiplierUsed, OneAndAHalfTo(n))
        /\ (n = 0 => lastCall.result.multiplierUsed = One)
        /\ RatEq(getCurrentMultiplier(scoreCalculator), OneAndAHalfTo(n + 1))

C3_Witness ==
  /\ PointsCall /\ lastCall.arg[2] /\ streak = 4
  /\ RatEq(lastCall.result.multiplierUsed, Rat(27, 8))

\* C4: an incorrect guess, after a streak of any length, leaves
\* consecutiveCorrect at 0 and the pending multiplier at 1.0, and the correct
\* guess right after it is scored with multiplier 1.0.
C4_IncorrectGuessResetsStreak ==
  /\ (PointsCall /\ ~lastCall.arg[2]) =>
       /\ getConsecutiveCorrect(scoreCalculator) = 0
       /\ RatEq(getCurrentMultiplier(scoreCalculator), One)
  /\ (PointsCall /\ lastCall.arg[2] /\ streak = 1) =>
       RatEq(lastCall.result.multiplierUsed, One)

C4_Witness ==
  /\ PointsCall /\ ~lastCall.arg[2]
  /\ lastCall.before.consecutiveCorrect >= 3
  /\ RatLess(One, lastCall.before.nextMultiplier)

\* the call found the uppercase form of its (valid) letter in guessedLetters
RepeatedGuess ==
  /\ GuessCall /\ isValidLetter(lastCall.arg)
  /\ toUpperCase(lastCall.arg) \in lastCall.before.guessedLetters

\* score, streak, multiplier, both letter sets, sentence, date and completion
\* flag are what they were before the call, and so is the display sentence
StateAsBefore ==
  /\ getGameState(ThisEngine) = lastCall.before
  /\ getDisplaySentence(sentenceManager) =
       getDisplaySentence([sentenceManager EXCEPT
                             !.revealedLetters = lastCall.before.revealedLetters])

\* C5 as claimed: every repeated guess fails with the duplicate-guess error and
\* changes nothing.
C5_RepeatedGuessIsDuplicateError ==
  RepeatedGuess =>
    /\ lastCall.status = "threw"
    /\ lastCall.error = "Letter has already been guessed"
    /\ StateAsBefore

\* C5 as amended: a repeated guess always fails and changes nothing; the error
\* is the duplicate-guess error while the game is not complete and the
\* terminal-state error once it is complete.
C5_RepeatedGuessFails ==
  RepeatedGuess =>
    /\ lastCall.status = "threw"
    /\ lastCall.error = IF lastCall.before.isComplete
                          THEN "Game is already complete"
                          ELSE "Letter has already been guessed"
    /\ StateAsBefore

\* a lowercase repeat of a letter guessed in uppercase, rejected as a duplicate
C5_Witness ==
  /\ RepeatedGuess
  /\ lastCall.error = "Letter has already been guessed"
  /\ lastCall.arg \notin guessedLetters
  /\ sentenceManager.revealedLetters # {}
  /\ scoreCalculator.currentScore > 0

\* C6: a guess made on an incomplete session completes it exactly when it is
\* accepted, correct, and its letter is the only unique letter of the sentence
\* still hidden; the GuessResult then reports gameComplete.
C6_CompleteExactlyAtLastLetter ==
  (GuessCall /\ ~lastCall.before.isComplete) =>
    /\ isGameComplete <=>
         /\ lastCall.status = "returned"
         /\ lastCall.result.isCorrect
         /\ UniqueLetters \ lastCall.before.revealedLetters = {lastCall.result.letter}
    /\ isGameComplete => lastCall.result.gameComplete
    /\ (lastCall.status = "returned" /\ ~lastCall.result.isCorrect) => ~isGameComplete

C6_Witness ==
  /\ GuessCall /\ ~lastCall.before.isComplete /\ isGameComplete
  /\ lastCall.result.gameComplete
  /\ guessedLetters \ sentenceManager.revealedLetters # {}

\* C7: on a complete engine every processGuess with a valid letter, guessed
\* before or not, fails with the terminal-state error and changes nothing, and
\* the engine is still complete after any processGuess call.
C7_CompleteRejectsGuesses ==
  (GuessCall /\ lastCall.before.isComplete) =>
    /\ isGameComplete
    /\ isValidLetter(lastCall.arg) =>
         /\ lastCall.status = "threw"
         /\ lastCall.error = "Game is already complete"
         /\ StateAsBefore

\* a letter never guessed, rejected on a complete game
C7_Witness ==
  /\ GuessCall /\ lastCall.before.isComplete /\ isValidLetter(lastCall.arg)
  /\ toUpperCase(lastCall.arg) \notin guessedLetters
  /\ lastCall.error = "Game is already complete"

\* C8: restoreGameState on a new engine with the snapshot of a session, the
\* source returning the sentence the snapshot holds, gives an engine whose
\* snapshot has the same score, multiplier, streak, revealed and guessed sets,
\* completion flag and date, and the same display sentence.
C8_SnapshotRoundTrip ==
  (/\ lastCall.op = "restoreGameState" /\ lastCall.status = "returned"
   /\ sentenceManager.currentSentence = lastCall.arg.currentSentence) =>
    LET old == lastCall.arg
        new == getGameState(ThisEngine)
    IN  /\ new.score = old.score
        /\ RatEq(new.streakMultiplier, old.streakMultiplier)
        /\ new.consecutiveCorrect = old.consecutiveCorrect
        /\ new.revealedLetters = old.revealedLetters
        /\ new.guessedLetters = old.guessedLetters
        /\ new.isComplete = old.isComplete
        /\ new.gameDate = old.gameDate
        /\ getDisplaySentence(sentenceManager) =
             getDisplaySentence([currentSentence    |-> old.currentSentence,
                                 normalizedSentence |-> toUpperCase(old.currentSentence),
                                 revealedLetters    |-> old.revealedLetters])

C8_Witness ==
  /\ lastCall.op = "restoreGameState" /\ lastCall.status = "returned"
  /\ sentenceManager.currentSentence = lastCall.arg.currentSentence
  /\ lastCall.arg.revealedLetters # {}
  /\ lastCall.arg.guessedLetters # lastCall.arg.revealedLetters
  /\ lastCall.arg.consecutiveCorrect >= 1
  /\ lastCall.arg.score > 0

\* C9: the display sentence of a loaded sentence has the sentence's length;
\* each non-alphabetic character stands unchanged at its position; each letter
\* stands in its original case when its uppercase form is revealed and as "_"
\* otherwise; with every unique letter revealed it is the sentence itself.
C9_DisplaySentenceShape ==
  SentenceLoaded =>
    LET original == sentenceManager.currentSentence
        shown == getDisplaySentence(sentenceManager)
        revealed == sentenceManager.revealedLetters
    IN  /\ Len(shown) = Len(original)
        /\ \A i \in 1..Len(original) :
             shown[i] = IF ~IsAlpha(original[i]) THEN original[i]
                        ELSE IF <<CharToUpperCase(original[i])>> \in revealed
                          THEN original[i]
                        ELSE "_"
        /\ UniqueLetters \subseteq revealed => shown = original

\* a lowercase letter shown, another letter still blank
C9_Witness ==
  /\ SentenceLoaded
  /\ LET original == sentenceManager.currentSentence
         shown == getDisplaySentence(sentenceManager)
     IN  /\ \E i \in 1..Len(original) :
               original[i] \in LowerLetters /\ shown[i] = original[i]
         /\ \E i \in 1..Len(original) : shown[i] = "_"

\* C10: the points of a correct guess are 10 x letterInstances x multiplierUsed
\* rounded to the nearest integer, a tie going up: p - 1/2 <= x < p + 1/2;
\* 2.25 with one instance gives 23 and 1.5 with three instances gives 45.
C10_PointsRoundedHalfUp ==
  (PointsCall /\ lastCall.arg[2]) =>
    LET m == lastCall.result.multiplierUsed
        k == lastCall.result.letterInstances
        p == lastCall.result.pointsEarned
    IN  /\ k = lastCall.arg[1]
        /\ RatEq(m, lastCall.before.nextMultiplier)
        /\ (2 * p - 1) * m.d <= 2 * 10 * k * m.n
        /\ 2 * 10 * k * m.n < (2 * p + 1) * m.d
        /\ (RatEq(m, Rat(9, 4)) /\ k = 1) => p = 23
        /\ (RatEq(m, Rat(3, 2)) /\ k = 3) => p = 45

\* 10 x 1 x 2.25 = 22.5 is scored 23 in the third guess of a streak
C10_Witness ==
  /\ PointsCall /\ lastCall.arg[2] /\ streak = 3
  /\ RatEq(lastCall.result.multiplierUsed, Rat(9, 4))
  /\ lastCall.result.letterInstances = 1
  /\ lastCall.result.pointsEarned = 23

\* C11: an incorrect guess reports pointsEarned = -10 and multiplierUsed = 1.0
\* whatever the score and the streak were; for every calculatePoints call
\* newTotal = max(0, previous score + pointsEarned) = getCurrentScore() right
\* after the call: the floor is applied to the total, never to pointsEarned.
C11_FloorOnTotalNotOnPoints ==
  PointsCall =>
    LET r == lastCall.result
        previous == lastCall.before.currentScore
    IN  /\ ~lastCall.arg[2] =>
             /\ r.pointsEarned = 0 - 10
             /\ r.multiplierUsed.n = 1 /\ r.multiplierUsed.d = 1
        /\ r.newTotal = (IF previous + r.pointsEarned > 0
                         THEN previous + r.pointsEarned ELSE 0)
        /\ r.newTotal = getCurrentScore(scoreCalculator)

\* an incorrect guess at score 5, in a streak: -10 reported, total floored at 0
C11_Witness ==
  /\ PointsCall /\ ~lastCall.arg[2]
  /\ lastCall.before.currentScore = 5
  /\ lastCall.before.consecutiveCorrect > 0
  /\ lastCall.result.pointsEarned = 0 - 10
  /\ lastCall.result.newTotal = 0

InitializeCall == lastCall.op = "initializeGame"

RestoreCall == lastCall.op = "restoreGameState"

\* C12: when initializeGame(date) has resolved successfully, whatever the
\* engine held when it was called, the state is a fresh session: score 0,
\* multiplier 1.0, consecutiveCorrect 0, guessedLetters and revealedLetters
\* empty, isComplete false, gameDate the given date (today's when omitted),
\* and every letter, in either case, is accepted by processGuess.
C12_InitializeGameStartsFresh ==
  (InitializeCall /\ lastCall.status = "returned") =>
    /\ getCurrentScore(scoreCalculator) = 0
    /\ getCurrentMultiplier(scoreCalculator) = [n |-> 1, d |-> 1]
    /\ getConsecutiveCorrect(scoreCalculator) = 0
    /\ guessedLetters = {}
    /\ sentenceManager.revealedLetters = {}
    /\ ~isGameComplete
    /\ gameDate = (IF lastCall.arg = "" THEN Today ELSE lastCall.arg)
    /\ SentenceLoaded
    /\ \A ch \in UpperLetters \cup LowerLetters :
         processGuess(ThisEngine, <<ch>>).error = ""

\* initializeGame for another date resolved on an engine whose game was
\* complete, with points scored and a streak running
C12_Witness ==
  /\ InitializeCall /\ lastCall.status = "returned"
  /\ lastCall.before.isComplete
  /\ lastCall.before.score > 0
  /\ lastCall.before.consecutiveCorrect > 0
  /\ lastCall.before.guessedLetters # {}
  /\ lastCall.before.gameDate # gameDate

\* the payload is one that sentence validation lets through
UsablePayload(response) ==
  LET t == trim(response.sentence)
  IN  /\ response.success
      /\ Len(t) >= 10 /\ Len(t) <= 200
      /\ \E i \in 1..Len(t) : t[i] \in UpperLetters \cup LowerLetters
      /\ \A i \in 1..Len(t) :
           t[i] \in UpperLetters \cup LowerLetters \cup Digits \cup Whitespace
                    \cup {"-", ".", ",", "!", "?", "'", "\"", "(", ")"}

OccursInSentence(entry) ==
  /\ Len(entry) = 1
  /\ \E i \in 1..Len(sentenceManager.currentSentence) :
       CharToUpperCase(sentenceManager.currentSentence[i]) = CharToUpperCase(entry[1])

\* what restoreGameState(s) leaves besides revealedLetters: guessedLetters and
\* the completion flag as given (a flag of true locks processGuess), the
\* numbers floored at 0, 0 and 1.0, and the date of the snapshot
RestoredAsGiven(s) ==
  /\ guessedLetters = s.guessedLetters
  /\ isGameComplete = s.isComplete
  /\ GameEngine_isComplete(ThisEngine) = s.isComplete
  /\ s.isComplete =>
       \A ch \in UpperLetters \cup LowerLetters :
         processGuess(ThisEngine, <<ch>>).error = "Game is already complete"
  /\ getCurrentScore(scoreCalculator) = (IF s.score > 0 THEN s.score ELSE 0)
  /\ getConsecutiveCorrect(scoreCalculator) =
       (IF s.consecutiveCorrect > 0 THEN s.consecutiveCorrect ELSE 0)
  /\ LET m == getCurrentMultiplier(scoreCalculator)
         g == s.streakMultiplier
     IN  IF g.n > g.d THEN m.n * g.d = g.n * m.d ELSE m.n = m.d
  /\ gameDate = s.gameDate

\* C14 as stated: after restoreGameState(s) resolves, guessedLetters, the
\* completion flag, the floored numbers and the date are those of s, and
\* revealedLetters is exactly the set of entries of s.revealedLetters that
\* occur in the loaded sentence.
C14_RevealedAreSnapshotEntries ==
  (RestoreCall /\ lastCall.status = "returned") =>
    /\ RestoredAsGiven(lastCall.arg)
    /\ sentenceManager.revealedLetters =
         {entry \in lastCall.arg.revealedLetters : OccursInSentence(entry)}

\* C14, amended: as above, but revealedLetters is the set of the uppercase
\* forms of those entries of s.revealedLetters that are single letters
\* occurring, in either case, in the loaded sentence.
C14_RevealedAreNormalizedEntries ==
  (RestoreCall /\ lastCall.status = "returned") =>
    /\ RestoredAsGiven(lastCall.arg)
    /\ sentenceManager.revealedLetters =
         {<<CharToUpperCase(entry[1])>> :
            entry \in {x \in lastCall.arg.revealedLetters :
                         /\ OccursInSentence(x)
                         /\ x[1] \in UpperLetters \cup LowerLetters}}

\* a snapshot with lowercase entries and a digit, flagged complete, restored on
\* an engine that was playing another date: "a" comes back as "A", "b" and
\* "2" are dropped
C14_Witness ==
  /\ RestoreCall /\ lastCall.status = "returned"
  /\ lastCall.arg.revealedLetters = {<<"a">>, <<"b">>, <<"2">>}
  /\ lastCall.arg.isComplete
  /\ sentenceManager.revealedLetters = {<<"A">>}
  /\ lastCall.before.currentSentence # <<>>
  /\ lastCall.before.gameDate # gameDate

ResetCall == lastCall.op = "reset"

\* C15: reset() returns the engine to the uninitialized state whatever it held:
\* score 0, multiplier 1.0, consecutiveCorrect 0, guessedLetters and
\* revealedLetters empty, no sentence (the display sentence is the empty
\* string), gameDate empty, isComplete false; and it does not contact the
\* sentence source: no request is in flight after it.
C15_ResetReturnsToUninitialized ==
  ResetCall =>
    /\ getCurrentScore(scoreCalculator) = 0
    /\ getCurrentMultiplier(scoreCalculator) = [n |-> 1, d |-> 1]
    /\ getConsecutiveCorrect(scoreCalculator) = 0
    /\ guessedLetters = {}
    /\ sentenceManager.revealedLetters = {}
    /\ sentenceManager.currentSentence = <<>>
    /\ getDisplaySentence(sentenceManager) = <<>>
    /\ gameDate = ""
    /\ ~isGameComplete
    /\ getGameState(ThisEngine) = getGameState(NewGameEngine)
    /\ pending = <<>>

\* reset of an engine whose game was complete, with points and a streak
C15_Witness ==
  /\ ResetCall
  /\ lastCall.before.isComplete
  /\ lastCall.before.score > 0
  /\ lastCall.before.consecutiveCorrect > 0
  /\ lastCall.before.revealedLetters # {}
  /\ lastCall.before.gameDate # ""
  /\ gameDate = ""

\* C16: in every engine state reachable by initializeGame, processGuess,
\* restoreGameState (with any snapshot value) and reset, revealedLetters is a
\* subset of guessedLetters.
C16_RevealedSubsetInEveryState ==
  sentenceManager.revealedLetters \subseteq guessedLetters

\* C17: in every engine state reachable by initializeGame, processGuess,
\* restoreGameState (with any snapshot value) and reset, the isComplete field
\* of getGameState() is true exactly when a sentence is loaded and the
\* uppercase form of each of its letters is in revealedLetters.
C17_CompleteIffAllRevealed ==
  getGameState(ThisEngine).isComplete <=>
    (SentenceLoaded /\ UniqueLetters \subseteq sentenceManager.revealedLetters)

\* an ApiClient call that went through makeRequest has returned
RequestDone ==
  /\ lastCall.op \in {"getSentence", "submitScore", "checkApiHealth"}
  /\ lastCall.status = "returned"
  /\ lastCall.result.answers # <<>>

\* makeRequest threw: the call took its failure path
RequestFailed == lastCall.result.error.name # ""

HasRetryableStatus(answer) ==
  answer.kind = "status" /\ answer.status \in {408, 429, 500, 502, 503, 504}

C19_FallbackSentenceForEveryDate ==
  (lastCall.op = "getSentence") =>
    /\ lastCall.status # "threw"
    /\ (/\ lastCall.status = "returned"
        /\ lastCall.result.answers # <<>>
        /\ RequestFailed
        /\ CacheKey("sentence", lastCall.arg) \notin DOMAIN lastCall.before.cache) =>
         LET response == lastCall.result.response
         IN  /\ response.success
             /\ response.date = lastCall.arg
             /\ Len(response.sentence) > 0
             /\ response.sentence = getFallbackSentence(lastCall.arg).sentence
             /\ loadDailySentence(NewSentenceManager, response).error = ""

\* submitScore has returned after its request failed
SubmitFailed ==
  /\ lastCall.op = "submitScore" /\ lastCall.status = "returned"
  /\ RequestFailed

\* the entries of a local leaderboard that belong to the player
EntriesOf(scores, name) ==
  {scores[i] : i \in {j \in 1..Len(scores) : scores[j].playerName = name}}

\* the player's entry as the failed submission should leave it: created with
\* the daily score and one game, or raised by the daily score and one game
EntryAfter(scores, submission) ==
  IF EntriesOf(scores, submission.playerName) = {}
    THEN [playerName      |-> submission.playerName,
          cumulativeScore |-> submission.dailyScore,
          gamesPlayed     |-> 1,
          lastPlayedDate  |-> submission.gameDate]
  ELSE LET old == CHOOSE e \in EntriesOf(scores, submission.playerName) : TRUE
       IN  [playerName      |-> submission.playerName,
            cumulativeScore |-> old.cumulativeScore + submission.dailyScore,
            gamesPlayed     |-> old.gamesPlayed + 1,
            lastPlayedDate  |-> submission.gameDate]

\* the failed call answered with success and the notice
AnsweredSavedLocally ==
  /\ lastCall.result.response.success
  /\ lastCall.result.response.error =
       "Score saved locally. Will sync when connection is restored."

SyncCall == lastCall.op = "syncPendingSubmissions"

\* the submissions of the list whose POST did not succeed, in their order
RECURSIVE FailedSubmissions(_, _)
FailedSubmissions(pendingList, posted) ==
  IF pendingList = <<>> THEN <<>>
  ELSE (IF posted[1] THEN <<>> ELSE <<Head(pendingList)>>)
         \o FailedSubmissions(Tail(pendingList), Tail(posted))

\* the submissions of the list for whose player name and game date no
\* submission of the list was posted
UnpostedPairs(pendingList, posted) ==
  SelectSeq(pendingList,
            LAMBDA sub : ~\E k \in 1..Len(pendingList) :
                            /\ posted[k]
                            /\ pendingList[k].playerName = sub.playerName
                            /\ pendingList[k].gameDate = sub.gameDate)

ScoresResponse == lastResponse.kind = "scores"

\* the submission of the last response passes the validation of the worker
ValidSubmission ==
  validateSubmission(lastResponse.request, lastResponse.today).go

\* C22: whatever submissions the worker handles, one after the other or at the
\* same time, daily_scores never holds two rows of one (sanitized player name,
\* game date) pair, no pair is answered 200 twice and the player's row is
\* written at most once for a pair; a valid submission that arrives after a
\* submission of its pair was accepted is answered 409.
C22_OneSubmissionPerPair ==
  /\ \A i, j \in 1..Len(dailyScores) :
       (/\ dailyScores[i].player_name = dailyScores[j].player_name
        /\ dailyScores[i].game_date = dailyScores[j].game_date) => i = j
  /\ \A i, j \in 1..Len(ledger.accepted) :
       (/\ ledger.accepted[i].player_name = ledger.accepted[j].player_name
        /\ ledger.accepted[i].game_date = ledger.accepted[j].game_date) => i = j
  /\ \A i, j \in 1..Len(ledger.credited) :
       ledger.credited[i] = ledger.credited[j] => i = j
  /\ (ScoresResponse /\ ValidSubmission /\ lastResponse.after) =>
       lastResponse.response.status = 409

\* of two submissions of one pair handled at the same time, sent under the
\* names "Ann" and " <Ann> ", one was accepted and the other has now failed
C22_Witness ==
  /\ ScoresResponse /\ ValidSubmission /\ ~lastResponse.after
  /\ lastResponse.response.status = 500
  /\ ~foreignKeys
  /\ Accepted(sanitizeName(lastResponse.request.playerName),
              lastResponse.request.gameDate)
  /\ \E k \in 1..Len(ledger.accepted) :
       /\ ledger.accepted[k].game_date = lastResponse.request.gameDate
       /\ ledger.accepted[k].daily_score # lastResponse.request.dailyScore

\* the sum of the daily scores of the player's accepted submissions, and
\* their number
RECURSIVE AcceptedSum(_, _)
AcceptedSum(accepted, name) ==
  IF accepted = <<>> THEN 0
  ELSE (IF Head(accepted).player_name = name THEN Head(accepted).daily_score ELSE 0)
         + AcceptedSum(Tail(accepted), name)

AcceptedCount(accepted, name) ==
  Cardinality({k \in 1..Len(accepted) : accepted[k].player_name = name})

SubmittedNames ==
  {sanitizeName(body.playerName) : body \in WorkerSubmissionInputs}

\* C23: from an empty database, whatever submissions were accepted, also
\* submissions of one player for different dates handled at the same time,
\* each player's cumulative_score is the sum of the player's accepted daily
\* scores and games_played their number.
C23_CumulativeIsSumOfAccepted ==
  \A name \in SubmittedNames :
    LET row == selectPlayer(players, name)
    IN  /\ row.cumulative_score = AcceptedSum(ledger.accepted, name)
        /\ row.games_played = AcceptedCount(ledger.accepted, name)

SentenceResponse == lastResponse.kind = "sentence"

\* the string names a day of the calendar as YYYY-MM-DD
NamesADay(s) == dateRegexTest(s) /\ isCalendarDate(s)

\* day a comes after day b in the calendar
DayAfter(a, b) ==
  \/ DateYear(a) > DateYear(b)
  \/ DateYear(a) = DateYear(b) /\ DateMonth(a) > DateMonth(b)
  \/ DateYear(a) = DateYear(b) /\ DateMonth(a) = DateMonth(b) /\ DateDay(a) > DateDay(b)

\* C24: a request for the sentence of a day after the worker's current UTC
\* date is answered 403 with an empty sentence, also when the sentence is
\* stored already; a response that carries a sentence, or has status 200, is
\* for the current day or a day at most one year back, and carries the
\* sentence stored for that day.
C24_NoFutureSentence ==
  SentenceResponse =>
    LET response == lastResponse.response
        requested == lastResponse.request
        today == lastResponse.today
    IN  /\ (NamesADay(requested) /\ DayAfter(requested, today)) =>
              /\ response.status = 403
              /\ ~response.success
              /\ response.sentence = <<>>
        /\ (response.sentence # <<>> \/ response.status = 200) =>
              /\ NamesADay(requested)
              /\ ~DayAfter(requested, today)
              /\ ~DayAfter(requested, ServerDate(serverDay))
              /\ ~DayAfter(OneYearBefore(today), requested)
              /\ requested \in KvSentenceDates
              /\ response.success
              /\ response.sentence = KvSentence(requested).sentence

\* the sentence of 2024-01-02, stored ahead, is refused on 2024-01-01
C24_Witness ==
  /\ SentenceResponse
  /\ lastResponse.request = DayTwo
  /\ lastResponse.today = DayOne
  /\ DayTwo \in KvSentenceDates
  /\ lastResponse.response.status = 403
  /\ lastResponse.response.sentence = <<>>

\* C25: calculatePoints(0, true) earns 0 points and leaves the score as it
\* was, and like every correct call, whatever its letterInstances, it adds 1
\* to consecutiveCorrect and multiplies the pending multiplier by 1.5; every
\* incorrect call, whatever its letterInstances, resets both.
C25_StreakFollowsIsCorrectOnly ==
  PointsCall =>
    LET before == lastCall.before
        result == lastCall.result
    IN  /\ (lastCall.arg[2] /\ lastCall.arg[1] = 0) =>
              /\ result.pointsEarned = 0
              /\ result.newTotal = before.currentScore
              /\ getCurrentScore(scoreCalculator) = before.currentScore
        /\ lastCall.arg[2] =>
              /\ getConsecutiveCorrect(scoreCalculator) = before.consecutiveCorrect + 1
              /\ RatEq(getCurrentMultiplier(scoreCalculator),
                       RatTimes(before.nextMultiplier, Rat(3, 2)))
        /\ ~lastCall.arg[2] =>
              /\ getConsecutiveCorrect(scoreCalculator) = 0
              /\ RatEq(getCurrentMultiplier(scoreCalculator), One)

\* a correct call with no instance, made in a streak with points on the board
C25_Witness ==
  /\ PointsCall /\ lastCall.arg = <<0, TRUE>>
  /\ lastCall.before.consecutiveCorrect = 2
  /\ lastCall.before.currentScore > 0
  /\ getConsecutiveCorrect(scoreCalculator) = 3
  /\ getCurrentScore(scoreCalculator) = lastCall.before.currentScore
  /\ lastCall.result.pointsEarned = 0

\* C26: on a calculator driven by any calls of calculatePoints, resetStreak,
\* setScore and initializeState, with negative and below-minimum arguments
\* too, the pending multiplier is at least 1.0 and consecutiveCorrect at
\* least 0 in every state; initializeState leaves each of score,
\* consecutiveCorrect and multiplier at the larger of its argument and 0, 0
\* and 1.0.
C26_MultiplierAndStreakFloors ==
  /\ ~RatLess(getCurrentMultiplier(scoreCalculator), One)
  /\ getConsecutiveCorrect(scoreCalculator) >= 0
  /\ lastCall.op = "initializeState" =>
       /\ getCurrentScore(scoreCalculator) =
            (IF lastCall.arg[1] < 0 THEN 0 ELSE lastCall.arg[1])
       /\ getConsecutiveCorrect(scoreCalculator) =
            (IF lastCall.arg[2] < 0 THEN 0 ELSE lastCall.arg[2])
       /\ RatEq(getCurrentMultiplier(scoreCalculator),
                IF RatLess(lastCall.arg[3], One) THEN One ELSE lastCall.arg[3])

\* initializeState(-5, 2, 0.5): the score and the multiplier are floored, the
\* streak counter is kept
C26_Witness ==
  /\ lastCall.op = "initializeState"
  /\ lastCall.arg[1] < 0 /\ lastCall.arg[2] = 2 /\ RatLess(lastCall.arg[3], One)
  /\ getCurrentScore(scoreCalculator) = 0
  /\ getConsecutiveCorrect(scoreCalculator) = 2
  /\ getCurrentMultiplier(scoreCalculator) = One

RevealCall == lastCall.op = "revealLetter"

\* how often the letter occurs in the string, in either case
Occurrences(s, letter) ==
  Cardinality({i \in 1..Len(s) :
                 CharToUpperCase(s[i]) = CharToUpperCase(letter[1])})

\* C27: on a manager with a sentence, revealLetter with a valid letter returns
\* the number of occurrences of the letter in the sentence, in either case (0
\* if there is none), and revealedLetters then is what it was plus the
\* uppercase letter, also when the letter does not occur; revealing the same
\* letter, in either case, in the next call returns the same count and leaves
\* revealedLetters as it is.
C27_RevealLetterCountsAndRecords ==
  (/\ RevealCall /\ isValidLetter(lastCall.arg)
   /\ Len(lastCall.before.manager.currentSentence) > 0) =>
    LET before == lastCall.before.manager
        previous == lastCall.before.call
    IN  /\ lastCall.status = "returned"
        /\ lastCall.result = Occurrences(before.currentSentence, lastCall.arg)
        /\ sentenceManager.revealedLetters =
             before.revealedLetters \cup {toUpperCase(lastCall.arg)}
        /\ sentenceManager.currentSentence = before.currentSentence
        /\ (/\ previous.op = "revealLetter" /\ previous.status = "returned"
            /\ toUpperCase(previous.arg) = toUpperCase(lastCall.arg)) =>
              /\ lastCall.result = previous.result
              /\ sentenceManager.revealedLetters = before.revealedLetters

\* "d" does not occur in "Aba, a Cab!": revealLetter returns 0 and records D
C27_Witness ==
  /\ RevealCall /\ lastCall.status = "returned"
  /\ lastCall.result = 0
  /\ toUpperCase(lastCall.arg) \notin lastCall.before.manager.revealedLetters
  /\ toUpperCase(lastCall.arg) \in sentenceManager.revealedLetters
  /\ \E letter \in sentenceManager.revealedLetters :
       Occurrences(sentenceManager.currentSentence, letter) > 0

\* C28: revealLetter throws 'Invalid letter provided' for an input that is not
\* one alphabetic character, whether a sentence is loaded or not, and 'No
\* sentence loaded' for a valid letter when no sentence is loaded;
\* revealedLetters is then what it was. isLetterInSentence returns false for
\* these inputs and never throws.
C28_RevealLetterRejectsAndQueryAnswersFalse ==
  /\ (RevealCall /\ ~isValidLetter(lastCall.arg)) =>
       /\ lastCall.status = "threw"
       /\ lastCall.error = "Invalid letter provided"
       /\ sentenceManager = lastCall.before.manager
  /\ (/\ RevealCall /\ isValidLetter(lastCall.arg)
      /\ Len(lastCall.before.manager.currentSentence) = 0) =>
       /\ lastCall.status = "threw"
       /\ lastCall.error = "No sentence loaded"
       /\ sentenceManager = lastCall.before.manager
  /\ lastCall.op = "isLetterInSentence" =>
       /\ lastCall.status = "returned"
       /\ sentenceManager = lastCall.before.manager
       /\ (\/ ~isValidLetter(lastCall.arg)
           \/ Len(sentenceManager.currentSentence) = 0) => lastCall.result = FALSE
       /\ (/\ isValidLetter(lastCall.arg)
           /\ Len(sentenceManager.currentSentence) > 0) =>
             (lastCall.result <=>
                Occurrences(sentenceManager.currentSentence, lastCall.arg) > 0)

\* a manager reset after letters were revealed refuses a valid letter
C28_Witness ==
  /\ RevealCall /\ isValidLetter(lastCall.arg)
  /\ lastCall.error = "No sentence loaded"
  /\ lastCall.before.call.op = "reset"
  /\ sentenceManager.revealedLetters = {}

\* C29: when processGuess returns, guessedLetters is what it was plus the
\* uppercase letter, and the GuessResult agrees with the engine after the
\* call: isCorrect tells whether the letter occurs in the sentence,
\* letterInstances is its number of occurrences (at least 1 when correct, 0
\* when not) and is what the score result reports, newTotal is
\* getCurrentScore(), gameComplete is isComplete(), displaySentence is
\* getDisplaySentence(); an incorrect guess leaves revealedLetters and the
\* display sentence as they were, a correct one reveals its letter.
C29_GuessResultAgreesWithState ==
  (GuessCall /\ lastCall.status = "returned") =>
    LET r == lastCall.result
        before == lastCall.before
        shownBefore ==
          getDisplaySentence([sentenceManager EXCEPT
                                !.revealedLetters = before.revealedLetters])
    IN  /\ r.letter = toUpperCase(lastCall.arg)
        /\ guessedLetters = before.guessedLetters \cup {r.letter}
        /\ r.isCorrect <=> Occurrences(sentenceManager.currentSentence, r.letter) > 0
        /\ r.letterInstances = Occurrences(sentenceManager.currentSentence, r.letter)
        /\ r.isCorrect => r.letterInstances >= 1
        /\ ~r.isCorrect => r.letterInstances = 0
        /\ r.scoreResult.isCorrect = r.isCorrect
        /\ r.scoreResult.letterInstances = r.letterInstances
        /\ r.scoreResult.newTotal = getCurrentScore(scoreCalculator)
        /\ r.gameComplete = GameEngine_isComplete(ThisEngine)
        /\ r.displaySentence = getDisplaySentence(sentenceManager)
        /\ ~r.isCorrect =>
             /\ sentenceManager.revealedLetters = before.revealedLetters
             /\ r.displaySentence = shownBefore
        /\ r.isCorrect =>
             sentenceManager.revealedLetters = before.revealedLetters \cup {r.letter}

\* an incorrect guess after a correct one, on a loaded sentence
C29_Witness ==
  /\ GuessCall /\ lastCall.status = "returned"
  /\ SentenceLoaded
  /\ ~lastCall.result.isCorrect
  /\ lastCall.result.letterInstances = 0
  /\ lastCall.before.revealedLetters # {}
  /\ \E i \in 1..Len(lastCall.result.displaySentence) :
       lastCall.result.displaySentence[i] = "_"

\* C30: a request whose attempt times out is tried again, up to maxRetries
\* times, the k-th retry (k from 0) after retryDelay x retryMultiplier^k
\* milliseconds: when a timeout is what the call ends with, maxRetries + 1
\* attempts were made, maxRetries delays of that length were slept, and the
\* error surfaced is the timeout.
C30_TimeoutIsRetried ==
  (RequestDone /\ lastCall.result.answers[Len(lastCall.result.answers)] = TimeoutAnswer) =>
    /\ Len(lastCall.result.answers) = maxRetries + 1
    /\ Len(lastCall.result.delays) = maxRetries
    /\ \A k \in 0..(maxRetries - 1) :
         lastCall.result.delays[k + 1] = retryDelay * Pow(retryMultiplier, k)
    /\ RequestFailed
    /\ lastCall.result.error.code = "TIMEOUT"

\* C31: when the request of getSentence(date) has failed and the cache held,
\* at the call, an entry for the date whose TTL had expired (the entry was
\* there and the call did not return it at once), getSentence returns the
\* data of that entry and not the generic fallback sentence.
C31_ExpiredCacheBeforeFallback ==
  (/\ lastCall.op = "getSentence"
   /\ lastCall.status = "returned"
   /\ lastCall.result.answers # <<>>
   /\ RequestFailed
   /\ CacheKey("sentence", lastCall.arg) \in DOMAIN lastCall.called.cache) =>
     lastCall.result.response =
       lastCall.called.cache[CacheKey("sentence", lastCall.arg)].data

\* the requests of the client that were let through with a timestamp in the
\* RateLimitWindow seconds that begin at second t
AllowedInWindow(ip, t) ==
  {k \in 1..Len(rateLimit.allowed) :
     /\ rateLimit.allowed[k].ip = ip
     /\ rateLimit.allowed[k].now \in t..(t + RateLimitWindow - 1)}

\* C32: for each client IP at most RATE_LIMIT_REQUESTS requests are let
\* through in any window of RATE_LIMIT_WINDOW seconds, also when the requests
\* of the IP are handled at the same time (while SENTENCES_KV has answered
\* every read), and a request that is refused is answered 429 with a
\* Retry-After of at least 1 second.
C32_AtMostLimitPerWindow ==
  /\ ~rateLimit.failed =>
        \A ip \in ClientIPs : \A t \in 0..MaxSeconds :
          Cardinality(AllowedInWindow(ip, t)) <= RateLimitRequests
  /\ (lastResponse.kind = "health" /\ lastResponse.response.status # 200) =>
        /\ lastResponse.response.status = 429
        /\ lastResponse.response.retryAfter >= 1

\* C33: on a calculator driven from new by calculatePoints and resetStreak
\* alone, the pending multiplier is 1.5 to the power consecutiveCorrect in
\* every state.
C33_MultiplierIsPowerOfCount ==
  RatEq(getCurrentMultiplier(scoreCalculator),
        OneAndAHalfTo(getConsecutiveCorrect(scoreCalculator)))

\* three correct guesses in a row: 3.375 is pending
C33_Witness ==
  /\ PointsCall /\ lastCall.arg[2]
  /\ getConsecutiveCorrect(scoreCalculator) = 3
  /\ RatEq(getCurrentMultiplier(scoreCalculator), Rat(27, 8))
  /\ streak = 3

\* C34: in a session started by initializeGame an accepted guess adds exactly
\* one letter, its own, to guessedLetters, which holds none but the 26
\* letters; and while the session is not complete a letter of the sentence
\* is among the remaining letters and processGuess accepts it.
C34_IncompleteSessionHasALetterLeft ==
  /\ (GuessCall /\ lastCall.status = "returned") =>
        /\ toUpperCase(lastCall.arg) \notin lastCall.before.guessedLetters
        /\ guessedLetters =
             lastCall.before.guessedLetters \cup {toUpperCase(lastCall.arg)}
  /\ guessedLetters \subseteq {<<UpperAlphabet[i]>> : i \in 1..26}
  /\ (SentenceLoaded /\ ~GameEngine_isComplete(ThisEngine)) =>
        \E letter \in getRemainingLetters(ThisEngine) :
          /\ letter \in UniqueLetters
          /\ processGuess(ThisEngine, letter).error = ""

\* "Aba, a Cab!" with A, B and D guessed: C is left
C34_Witness ==
  /\ GuessCall /\ lastCall.status = "returned"
  /\ SentenceLoaded /\ ~GameEngine_isComplete(ThisEngine)
  /\ guessedLetters = {<<"A">>, <<"B">>, <<"D">>}
  /\ UniqueLetters \ guessedLetters = {<<"C">>}

\* processGuess was called, with a letter not guessed before, on an engine
\* that had no sentence
GuessWithoutSentence ==
  /\ GuessCall
  /\ isValidLetter(lastCall.arg)
  /\ lastCall.before.currentSentence = <<>>
  /\ toUpperCase(lastCall.arg) \notin lastCall.before.guessedLetters

\* C35: on an engine with no sentence loaded, processGuess with a valid letter
\* not guessed before throws nothing: the letter is added to guessedLetters,
\* the result has isCorrect = false, no instances and pointsEarned = -10, the
\* score stays at or above 0, nothing is revealed and the completion flag is
\* not set.
C35_GuessWithoutSentenceIsIncorrect ==
  GuessWithoutSentence =>
    /\ lastCall.status = "returned"
    /\ guessedLetters =
         lastCall.before.guessedLetters \cup {toUpperCase(lastCall.arg)}
    /\ ~lastCall.result.isCorrect
    /\ lastCall.result.letterInstances = 0
    /\ lastCall.result.scoreResult.pointsEarned = 0 - 10
    /\ getCurrentScore(scoreCalculator) >= 0
    /\ lastCall.result.scoreResult.newTotal = getCurrentScore(scoreCalculator)
    /\ getRevealedLetters(sentenceManager) = lastCall.before.revealedLetters
    /\ ~SentenceLoaded
    /\ ~lastCall.result.gameComplete
    /\ ~GameEngine_isComplete(ThisEngine)

\* the second guess on an engine whose initializeGame has failed
C35_Witness ==
  /\ GuessWithoutSentence
  /\ lastCall.status = "returned"
  /\ gameDate # ""
  /\ Cardinality(guessedLetters) = 2
  /\ getCurrentScore(scoreCalculator) = 0

\* C36: when initializeGame resolves, also after processGuess calls made while
\* it was awaiting the sentence, the session is fresh: guessedLetters is
\* empty, the score and consecutiveCorrect are 0 and processGuess accepts
\* each of the 26 letters.
C36_FreshWhenInitializeGameResolves ==
  (InitializeCall /\ lastCall.status = "returned") =>
    /\ guessedLetters = {}
    /\ getCurrentScore(scoreCalculator) = 0
    /\ getConsecutiveCorrect(scoreCalculator) = 0
    /\ \A i \in 1..26 : processGuess(ThisEngine, <<UpperAlphabet[i]>>).error = ""

\* C37: when the initializeGame and restoreGameState calls made on an engine,
\* overlapping or not, have all resolved (every sentence load succeeding),
\* the loaded sentence is the sentence of the date getGameDate() reports,
\* whatever the order in which the loads completed.
C37_SentenceIsThatOfGameDate ==
  (/\ lastCall.op \in {"initializeGame", "restoreGameState"}
   /\ lastCall.status = "returned"
   /\ Idle) =>
     getOriginalSentence(sentenceManager) = trim(StoredSentence(gameDate))

\* C38: when restoreGameState has resolved with a snapshot whose isComplete is
\* false, the game can still be finished: every letter of the sentence that
\* is not revealed is absent from guessedLetters and processGuess accepts it.
C38_RestoredGameCanBeFinished ==
  (RestoreCall /\ lastCall.status = "returned" /\ ~lastCall.arg.isComplete) =>
    \A letter \in UniqueLetters \ getRevealedLetters(sentenceManager) :
      /\ letter \notin guessedLetters
      /\ processGuess(ThisEngine, letter).error = ""

\* C39: when the sentence load fails inside restoreGameState the call rejects
\* and the engine is as it was before the call: date, sentence, revealed and
\* guessed letters, score, streak, multiplier and completion flag.
C39_FailedRestoreChangesNothing ==
  (RestoreCall /\ lastCall.status = "threw") =>
    /\ lastCall.error # ""
    /\ getGameState(ThisEngine) = lastCall.before

\* C40: when syncPendingSubmissions has returned, every submission that was in
\* the pending list just before its last step, those stored by submitScore
\* while the sync was awaiting the network among them, is still in the list,
\* unless the sync posted a submission of the same player and date.
C40_StoredDuringSyncSurvives ==
  (SyncCall /\ lastCall.status = "returned") =>
    LET stored == getPendingSubmissions(lastCall.before.localStorage)
        left == getPendingSubmissions(localStorage)
        posted == lastCall.result.response
    IN  \A k \in 1..Len(stored) :
          (~\E j \in 1..Len(lastCall.arg) :
              /\ posted[j]
              /\ lastCall.arg[j].playerName = stored[k].playerName
              /\ lastCall.arg[j].gameDate = stored[k].gameDate)
            => \E m \in 1..Len(left) : left[m] = stored[k]

====
